---- MODULE Spec2Model ----
(***************************************************************************)
(* Model of mate_strategy's strategy engine (BaseStrategy, Fallback,       *)
(* AutoRepair) together with the part of Schema/Prompt it calls into.      *)
(*                                                                         *)
(* Conventions                                                             *)
(*   - a Python dict is a sequence of <<key, value>> pairs (insertion      *)
(*     order kept, keys distinct);                                         *)
(*   - a JSON value is a tagged record: IntV(n) or StrV(s);                *)
(*   - an optional Python value (None | x) is a sequence of length <= 1:   *)
(*     None is << >>, x is <<x>>;                                          *)
(*   - objects live in `heap`; a reference is an index into it, 0 is None; *)
(*   - a text is a sequence of tokens; the braces "{" and "}" are tokens   *)
(*     of their own so that str.format and the brace escaping of           *)
(*     AutoRepair._repair can be modelled by what they do.                 *)
(*   - the glyphs used by the source's messages that are not ASCII are     *)
(*     written with ASCII stand-ins ("*" for the bullet, "-" for dashes),  *)
(*     and the code fence of the JSON blocks is written "~~~".             *)
(***************************************************************************)
EXTENDS Integers, Sequences, FiniteSets, TLC

\* ------------------------------------------------------------------ bounds
MaxRetries == 1

MaxDepth == 2

MaxRepairRetries == 1

\* ------------------------------------------------------------ basic values
None == << >>

Some(x) == <<x>>

IntV(n) == [t |-> "int", v |-> n]

StrV(s) == [t |-> "str", v |-> s]

BoolV(b) == [t |-> "bool", v |-> b]

\* the float n + 0.5
FloatV(n) == [t |-> "float", v |-> n]

\* the value None of a reply (JSON null)
NullV == [t |-> "null", v |-> 0]

ListV(elems) == [t |-> "list", v |-> elems]

\* a JSON object: a dict of values
DictV(d) == [t |-> "dict", v |-> d]

\* twice the number a Python number is: an int, a bool (True == 1,
\* False == 0) or a float n + 0.5
Twice(val) ==
    IF val.t = "bool" THEN (IF val.v THEN 2 ELSE 0)
    ELSE IF val.t = "float" THEN 2 * val.v + 1
    ELSE 2 * val.v

EmptyDict == << >>

Keys(d) == {d[i][1] : i \in 1..Len(d)}

HasKey(d, k) == k \in Keys(d)

Get(d, k) == d[CHOOSE i \in 1..Len(d) : d[i][1] = k][2]

RECURSIVE Join(_)
Join(toks) == IF toks = << >> THEN "" ELSE Head(toks) \o Join(Tail(toks))

\* ------------------------------------------------------------------- rules
\* Interval[lo, hi]
Interval(lo, hi) == [rule |-> "Interval", lo |-> lo, hi |-> hi]

Interval_describe(typ) ==
    "number between " \o ToString(typ.lo) \o " and " \o ToString(typ.hi)

Interval_example(typ) == (typ.lo + typ.hi) \div 2

\* lo <= v <= hi raises TypeError when v is not a number
Interval_raises(typ, val) == val.t \notin {"int", "bool", "float"}

Interval_validate(typ, val) ==
    2 * typ.lo <= Twice(val) /\ Twice(val) <= 2 * typ.hi

\* NaturalNumber
NaturalNumber == [rule |-> "NaturalNumber"]

NaturalNumber_describe == "integer (>= 1)"

\* isinstance(v, int) and v >= 1; a bool is an int
NaturalNumber_validate(val) == val.t \in {"int", "bool"} /\ Twice(val) >= 2

NaturalNumber_example == 3

\* OneOf[params]: params is the tuple of the allowed values
OneOf(params) == [rule |-> "OneOf", params |-> params]

OneOf_describe(typ) ==
    LET
        \* repr of a string, a number otherwise
        repr(val) ==
            IF val.t = "str" THEN "'" \o val.v \o "'" ELSE ToString(val.v)
        RECURSIVE JoinComma(_)
        JoinComma(parts) ==
            IF Len(parts) = 0 THEN ""
            ELSE IF Len(parts) = 1 THEN parts[1]
            ELSE parts[1] \o ", " \o JoinComma(Tail(parts))
    IN
        "one of " \o JoinComma([i \in 1..Len(typ.params) |-> repr(typ.params[i])])

\* random.choice(params): rnd is the position random draws
OneOf_example(typ, rnd) == typ.params[((rnd - 1) % Len(typ.params)) + 1]

\* v in params
OneOf_validate(typ, val) ==
    LET
        \* a == b of Python: numbers are equal by value (True == 1, 1.0 == 1)
        PyEq(a, b) ==
            IF a.t \in {"int", "bool", "float"} /\ b.t \in {"int", "bool", "float"}
            THEN Twice(a) = Twice(b)
            ELSE a.t = b.t /\ a = b
    IN
        \E i \in 1..Len(typ.params) : PyEq(val, typ.params[i])

\* Regex[pattern]
Regex(pattern) == [rule |-> "Regex", pattern |-> pattern]

Regex_describe(typ) == "string matching regex \"" \o typ.pattern \o "\""

Regex_example == "<match>"

\* isinstance(v, str) and re.fullmatch(pattern, v) is not None
Regex_validate(typ, val) ==
    LET
        RECURSIVE AllDigits(_)
        AllDigits(s) ==
            \/ Len(s) = 0
            \/ /\ SubSeq(s, 1, 1) \in {"0", "1", "2", "3", "4", "5", "6", "7", "8", "9"}
               /\ AllDigits(SubSeq(s, 2, Len(s)))
        \* re.fullmatch(pattern, s) is not None, for the pattern \d+ and for
        \* patterns without a metacharacter, which match themselves only
        fullmatch(pattern, s) ==
            IF pattern = "\\d+" THEN Len(s) >= 1 /\ AllDigits(s)
            ELSE s = pattern
    IN
        val.t = "str" /\ fullmatch(typ.pattern, val.v)

\* typ.validate(val) raises
Rule_raises(typ, val) ==
    IF typ.rule = "Interval" THEN Interval_raises(typ, val) ELSE FALSE

\* typ.validate(val)
Rule_validate(typ, val) ==
    CASE typ.rule = "Interval" -> Interval_validate(typ, val)
      [] typ.rule = "OneOf"    -> OneOf_validate(typ, val)
      [] typ.rule = "Regex"    -> Regex_validate(typ, val)
      [] OTHER                 -> NaturalNumber_validate(val)

\* typ.describe()
Rule_describe(typ) ==
    CASE typ.rule = "Interval" -> Interval_describe(typ)
      [] typ.rule = "OneOf"    -> OneOf_describe(typ)
      [] typ.rule = "Regex"    -> Regex_describe(typ)
      [] OTHER                 -> NaturalNumber_describe

\* typ.example(); rnd is what random.choice draws
Rule_example(typ, rnd) ==
    CASE typ.rule = "Interval" -> IntV(Interval_example(typ))
      [] typ.rule = "OneOf"    -> OneOf_example(typ, rnd)
      [] typ.rule = "Regex"    -> StrV(Regex_example)
      [] OTHER                 -> IntV(NaturalNumber_example)

\* ------------------------------------------------------------------- types
\* the primitives str, int, float, bool and NoneType
Prim(name) == [prim |-> name]

\* typing.Union[args]
Union(args) == [union |-> args]

\* typing.List[elem]
List(elem) == [list |-> elem]

\* typing.Tuple[parts]
TupleOf(parts) == [tuple |-> parts]

_is_rule(typ) == "rule" \in DOMAIN typ

\* a nested Schema class is its own type
_is_schema(typ) == "fields" \in DOMAIN typ

_is_list(typ) == "list" \in DOMAIN typ

_is_tuple(typ) == "tuple" \in DOMAIN typ

_is_union(typ) == "union" \in DOMAIN typ

IsNoneType(typ) == "prim" \in DOMAIN typ /\ typ.prim = "NoneType"

\* typing.Optional[T] is Union[T, None], and a Union inside a Union is
\* flattened: Optional[Union[A, B]] is Union[A, B, None]
Optional(typ) ==
    LET
        NoneType == Prim("NoneType")
    IN
        IF _is_union(typ) THEN Union(typ.union \o <<NoneType>>)
        ELSE Union(<<typ, NoneType>>)

\* is a union of exactly two arguments, one of them NoneType
_is_optional(typ) ==
    /\ _is_union(typ)
    /\ \E i \in 1..Len(typ.union) : IsNoneType(typ.union[i])
    /\ Len(typ.union) = 2

\* next(t for t in get_args(typ) if t is not NoneType)
OptionalInner(typ) ==
    typ.union[CHOOSE i \in 1..2 :
                 /\ ~IsNoneType(typ.union[i])
                 /\ \A j \in 1..(i - 1) : IsNoneType(typ.union[j])]

\* ----------------------------------------------------------------- schemas
\* the schemas of the strategy doctests
RandomNumbers ==
    [name |-> "RandomNumbers", fields |-> << <<"x", Interval(0, 10)>> >>,
     constraints |-> << >>]

\* a schema that yields its fields last declared first
_field_types_reversed(cls) ==
    [i \in 1..Len(cls.fields) |-> cls.fields[Len(cls.fields) + 1 - i]]

_field_types(cls) == cls.fields

\* " or ".join(parts)
RECURSIVE JoinOr(_)
JoinOr(parts) ==
    IF Len(parts) = 0 THEN ""
    ELSE IF Len(parts) = 1 THEN parts[1]
    ELSE parts[1] \o " or " \o JoinOr(Tail(parts))

\* the check of a primitive: the value a field typed `prim` accepts
\* (isinstance(True, int) holds; every other type lets everything pass)
isinstance(val, prim) ==
    CASE prim = "str"   -> val.t = "str"
      [] prim = "int"   -> val.t \in {"int", "bool"}
      [] prim = "float" -> val.t \in {"int", "bool", "float"}
      [] prim = "bool"  -> val.t = "bool"
      [] OTHER          -> TRUE

\* msg.startswith(p)
startswith(msg, p) == Len(msg) >= Len(p) /\ SubSeq(msg, 1, Len(p)) = p

\* msg.find('"', 1), counted from 1: position of the first double quote
\* after the first character, 0 if there is none; i is where to look next
RECURSIVE find_quote(_, _)
find_quote(msg, i) ==
    IF i > Len(msg) THEN 0
    ELSE IF SubSeq(msg, i, i) = "\"" THEN i
    ELSE find_quote(msg, i + 1)

\* the short message of a nested error under the outer path
prepend_short(full, err_msg) ==
    IF startswith(err_msg, "\"")
    THEN "\"" \o full \o "." \o SubSeq(err_msg, 2, Len(err_msg))
    ELSE err_msg

\* _prepend_outer_path of the nested-Schema branch: the long message of a
\* nested error under the outer path
_prepend_outer_path(full, msg) ==
    IF ~startswith(msg, "\"") THEN msg
    ELSE LET end == find_quote(msg, 2)
         IN  IF end = 0 THEN msg
             ELSE LET inner_path == SubSeq(msg, 2, end - 1)
                  IN  IF startswith(inner_path, full \o ".") THEN msg
                      ELSE "\"" \o full \o "." \o inner_path \o "\""
                           \o SubSeq(msg, end + 1, Len(msg))

\* f"{key}[{i}]" for the element at position i (counted from 1)
elem_key(key, i) == key \o "[" \o ToString(i - 1) \o "]"

RECURSIVE _validate_value(_, _, _)
RECURSIVE _validate_value_raises(_, _)
RECURSIVE UnionRaises(_, _, _)
RECURSIVE UnionAlternatives(_, _, _, _, _)
RECURSIVE ListElements(_, _, _, _)
RECURSIVE TupleElements(_, _, _, _)
RECURSIVE ListRaises(_, _, _)
RECURSIVE TupleRaises(_, _, _)
RECURSIVE validate_with_error(_, _)
RECURSIVE validate_raises(_, _)

\* the loop over the alternatives of a union, from alternative i on
UnionAlternatives(key, val, alts, i, expected_parts) ==
    IF i > Len(alts)
    THEN Some(<<"\"" \o key \o "\" matches none of the allowed alternatives.",
                JoinOr(expected_parts)>>)
    ELSE LET err == _validate_value(key, val, alts[i])
         IN  IF err = None THEN None
             ELSE UnionAlternatives(key, val, alts, i + 1,
                                    Append(expected_parts, err[1][2]))

\* a list loop that checks the elements from the last one down
ListElements_backwards(key, elems, elem_typ, i) ==
    IF i > Len(elems) THEN None
    ELSE LET k   == Len(elems) + 1 - i
             err == _validate_value(elem_key(key, k), elems[k], elem_typ)
         IN  IF err # None THEN err
             ELSE ListElements(key, elems, elem_typ, i + 1)

\* the loop over the elements of a list, from element i on
ListElements(key, elems, elem_typ, i) ==
    IF i > Len(elems) THEN None
    ELSE LET err == _validate_value(elem_key(key, i), elems[i], elem_typ)
         IN  IF err # None THEN err
             ELSE ListElements(key, elems, elem_typ, i + 1)

\* the loop over the positions of a tuple, from position i on
TupleElements(key, elems, parts, i) ==
    IF i > Len(elems) THEN None
    ELSE LET err == _validate_value(elem_key(key, i), elems[i], parts[i])
         IN  IF err # None THEN err
             ELSE TupleElements(key, elems, parts, i + 1)

\* the (err, expected) pair the nested-Schema branch makes of the inner
\* schema's failure <<FALSE, err_msg, exp_msg>>
nested_error(full, reason) ==
    Some(<<prepend_short(full, reason[2]),
           _prepend_outer_path(full, reason[3])>>)

\* result of Schema._validate_value: None, or the (err, expected) pair
_validate_value(key, val, typ) ==
    LET
        \* the word of the primitive's message
        prim_word(prim) ==
            CASE prim = "str"   -> "string"
              [] prim = "int"   -> "integer"
              [] prim = "float" -> "float"
              [] OTHER          -> "boolean"
        \* type(val).__name__
        type_name(obj) == IF obj.t = "null" THEN "NoneType" ELSE obj.t
    IN
        IF _is_rule(typ)
        THEN IF ~Rule_validate(typ, val)
             THEN Some(<<"\"" \o key \o "\" is invalid.",
                         "\"" \o key \o "\" " \o Rule_describe(typ)>>)
             ELSE None
        ELSE IF _is_list(typ)
        THEN IF val.t # "list"
             THEN Some(<<"\"" \o key \o "\" must be a list, got "
                             \o type_name(val),
                         "\"" \o key \o "\" must be list">>)
             ELSE ListElements(key, val.v, typ.list, 1)
        ELSE IF _is_tuple(typ)
        THEN IF val.t # "list"
             THEN Some(<<"\"" \o key \o "\" must be a tuple, got "
                             \o type_name(val),
                         "\"" \o key \o "\" must be tuple">>)
             ELSE IF Len(val.v) # Len(typ.tuple)
             THEN Some(<<"\"" \o key \o "\" must have length "
                             \o ToString(Len(typ.tuple)) \o ", got "
                             \o ToString(Len(val.v)),
                         "\"" \o key \o "\" must be length-"
                             \o ToString(Len(typ.tuple)) \o " tuple">>)
             ELSE TupleElements(key, val.v, typ.tuple, 1)
        ELSE IF _is_optional(typ)
        THEN IF val.t = "null" THEN None
             ELSE _validate_value(key, val, OptionalInner(typ))
        ELSE IF _is_union(typ)
        THEN UnionAlternatives(key, val, typ.union, 1, << >>)
        ELSE IF _is_schema(typ)
        THEN IF val.t # "dict"
             THEN Some(<<"\"" \o key \o "\" must be an object",
                         "\"" \o key \o "\" must be an object">>)
             ELSE LET reason == validate_with_error(typ, val.v)
                  IN  IF reason[1] THEN None ELSE nested_error(key, reason)
        ELSE IF ~isinstance(val, typ.prim)
        THEN Some(<<"\"" \o key \o "\" must be " \o prim_word(typ.prim),
                    "\"" \o key \o "\" must be " \o prim_word(typ.prim)>>)
        ELSE None

\* the loop over the alternatives raises: an alternative's rule raises
\* before an alternative has accepted the value
UnionRaises(val, alts, i) ==
    IF i > Len(alts) THEN FALSE
    ELSE IF _validate_value_raises(val, alts[i]) THEN TRUE
    ELSE IF _validate_value("", val, alts[i]) = None THEN FALSE
    ELSE UnionRaises(val, alts, i + 1)

\* the loop over the elements raises before an element has failed
ListRaises(elems, elem_typ, i) ==
    IF i > Len(elems) THEN FALSE
    ELSE IF _validate_value_raises(elems[i], elem_typ) THEN TRUE
    ELSE IF _validate_value("", elems[i], elem_typ) # None THEN FALSE
    ELSE ListRaises(elems, elem_typ, i + 1)

\* the loop over the positions raises before a position has failed
TupleRaises(elems, parts, i) ==
    IF i > Len(elems) THEN FALSE
    ELSE IF _validate_value_raises(elems[i], parts[i]) THEN TRUE
    ELSE IF _validate_value("", elems[i], parts[i]) # None THEN FALSE
    ELSE TupleRaises(elems, parts, i + 1)

\* Schema._validate_value raises (the validate of a rule it reaches raises)
_validate_value_raises(val, typ) ==
    IF _is_rule(typ) THEN Rule_raises(typ, val)
    ELSE IF _is_list(typ)
    THEN val.t = "list" /\ ListRaises(val.v, typ.list, 1)
    ELSE IF _is_tuple(typ)
    THEN /\ val.t = "list" /\ Len(val.v) = Len(typ.tuple)
         /\ TupleRaises(val.v, typ.tuple, 1)
    ELSE IF _is_optional(typ)
    THEN val.t # "null" /\ _validate_value_raises(val, OptionalInner(typ))
    ELSE IF _is_union(typ) THEN UnionRaises(val, typ.union, 1)
    ELSE IF _is_schema(typ)
    THEN val.t = "dict" /\ validate_raises(typ, val.v)
    ELSE FALSE

\* a validation that lets every missing field pass
missing_is_fine_always(typ) == TRUE

\* `if cls._is_optional(typ): continue` for a field that is not in data
missing_is_fine(typ) == _is_optional(typ)

\* does validate_with_error raise on this dict (a rule's validate raising)
RECURSIVE FieldsRaise(_, _, _)
FieldsRaise(cls, data, i) ==
    IF i > Len(_field_types(cls)) THEN FALSE
    ELSE LET name == _field_types(cls)[i][1]
             typ  == _field_types(cls)[i][2]
         IN  IF ~HasKey(data, name)
             THEN missing_is_fine(typ) /\ FieldsRaise(cls, data, i + 1)
             ELSE IF _validate_value_raises(Get(data, name), typ) THEN TRUE
             ELSE IF _validate_value(name, Get(data, name), typ) # None
                  THEN FALSE
             ELSE FieldsRaise(cls, data, i + 1)

\* a validation that takes every key for a declared field
FirstUnexpected_none(cls, data) == 0

\* first key of the dict that is not a declared field, 0 if none
FirstUnexpected(cls, data) ==
    LET
        FieldNames == {cls.fields[i][1] : i \in 1..Len(cls.fields)}
    IN
        LET bad == {i \in 1..Len(data) : data[i][1] \notin FieldNames}
        IN  IF bad = {} THEN 0 ELSE CHOOSE i \in bad : \A j \in bad : i <= j

validate_raises(cls, data) ==
    FirstUnexpected(cls, data) = 0 /\ FieldsRaise(cls, data, 1)

\* the predicate of a cross-field constraint, by the name of its function
constraint_fn(fn, data) ==
    LET x == Twice(Get(data, "x")) \div 2
        y == Twice(Get(data, "y")) \div 2
    IN  IF fn = "parity"
        THEN (IF x % 2 = 0 THEN y % 2 # 0 ELSE y % 2 = 0)
        ELSE x < y

\* a validate_cross that reports the constraint declared last
RECURSIVE validate_cross_last_first(_, _, _)
validate_cross_last_first(cls, data, i) ==
    IF i > Len(cls.constraints) THEN <<TRUE>>
    ELSE LET c == cls.constraints[Len(cls.constraints) + 1 - i]
         IN  IF ~constraint_fn(c.fn, data)
             THEN <<FALSE, "\"" \o c.path \o "\" violates constraint.",
                           "\"" \o c.path \o "\" " \o c.desc>>
             ELSE validate_cross_last_first(cls, data, i + 1)

\* Schema.validate_cross, from constraint i on
RECURSIVE validate_cross(_, _, _)
validate_cross(cls, data, i) ==
    IF i > Len(cls.constraints) THEN <<TRUE>>
    ELSE LET c == cls.constraints[i]
         IN  IF ~constraint_fn(c.fn, data)
             THEN <<FALSE, "\"" \o c.path \o "\" violates constraint.",
                           "\"" \o c.path \o "\" " \o c.desc>>
             ELSE validate_cross(cls, data, i + 1)

\* per-field loop of validate_with_error, from field i on, and the call of
\* validate_cross after it
RECURSIVE ValidateFields(_, _, _)
ValidateFields(cls, data, i) ==
    IF i > Len(_field_types(cls)) THEN validate_cross(cls, data, 1)
    ELSE LET name == _field_types(cls)[i][1]
             typ  == _field_types(cls)[i][2]
         IN  IF ~HasKey(data, name)
             THEN IF missing_is_fine(typ)
                  THEN ValidateFields(cls, data, i + 1)
                  ELSE <<FALSE, "\"" \o name \o "\" is missing.",
                                "\"" \o name \o "\" must be present.">>
             ELSE LET err == _validate_value(name, Get(data, name), typ)
                  IN  IF err # None
                      THEN <<FALSE, err[1][1], err[1][2]>>
                      ELSE ValidateFields(cls, data, i + 1)

\* Schema.validate_with_error: <<TRUE>> or <<FALSE, short, long>>
validate_with_error(cls, data) ==
    LET u == FirstUnexpected(cls, data)
    IN  IF u # 0
        THEN <<FALSE, "\"" \o data[u][1] \o "\" is not a valid field.",
                      "\"" \o data[u][1] \o "\" is not expected here.">>
        ELSE ValidateFields(cls, data, 1)

\* -------------------------------------------------------------------- text
LB == "{"

RB == "}"

\* json.dumps of a scalar
JsonValue(val) ==
    IF val.t = "int" THEN ToString(val.v) ELSE "\"" \o val.v \o "\""

RECURSIVE JsonItems(_, _)
JsonItems(d, i) ==
    IF i > Len(d) THEN ""
    ELSE "\n  \"" \o d[i][1] \o "\": " \o JsonValue(d[i][2])
         \o (IF i < Len(d) THEN "," ELSE "\n") \o JsonItems(d, i + 1)

\* json.dumps(d, indent=2), as tokens
JsonDumps(d) ==
    IF d = EmptyDict THEN <<LB, RB>> ELSE <<LB, JsonItems(d, 1), RB>>

\* Schema.example for Rule-typed fields (no constraints, no overrides)
example(cls) ==
    [i \in 1..Len(cls.fields) |->
        <<cls.fields[i][1], IntV(Interval_example(cls.fields[i][2]))>>]

\* Schema.rules: label, description and micro-example line of every field
RECURSIVE RuleLines(_, _)
RuleLines(cls, i) ==
    IF i > Len(cls.fields) THEN ""
    ELSE LET name == cls.fields[i][1]
             typ  == cls.fields[i][2]
         IN  "- " \o name \o "\n"
             \o "  * " \o Interval_describe(typ) \o "\n"
             \o "    (ex: " \o ToString(Interval_example(typ)) \o ")"
             \o (IF i < Len(cls.fields) THEN "\n" ELSE "")
             \o RuleLines(cls, i + 1)

rules(cls) == RuleLines(cls, 1)

\* Schema.prompt
SchemaPrompt(cls) ==
    <<"Fill in **valid JSON** for the fields below.",
      "\n\nRules\n", rules(cls), "\n\n", "Example 1:\n~~~json\n">>
    \o JsonDumps(example(cls))
    \o <<"\n~~~",
         "\n\nReturn **only** the JSON object - no code-fences, no comments.">>

\* Schema.repair_prompt
repair_prompt(cls, bad_data) ==
    LET r == validate_with_error(cls, bad_data)
        reason_msg == IF ~r[1] /\ Len(r) = 3
                      THEN "Problem:\n- " \o r[2] \o "\n  Expected:\n "
                           \o r[3] \o "\n\n"
                      ELSE ""
    IN  <<"The JSON below is invalid.\n\n", reason_msg,
          "Rules:\n", rules(cls), "\n\n",
          "Current value (invalid):\n", "~~~json\n">>
        \o JsonDumps(bad_data)
        \o <<"\n~~~\n\n", "Reply with **only** the corrected JSON object.">>

\* str.replace("{", "{{").replace("}", "}}")
RECURSIVE EscapeBraces(_)
EscapeBraces(toks) ==
    IF toks = << >> THEN << >>
    ELSE (IF Head(toks) = LB THEN <<LB, LB>>
          ELSE IF Head(toks) = RB THEN <<RB, RB>>
          ELSE <<Head(toks)>>) \o EscapeBraces(Tail(toks))

\* str.format(**values) raises: a lone brace (ValueError) or a placeholder
\* without a value (KeyError)
RECURSIVE FormatRaises(_, _)
FormatRaises(toks, values) ==
    IF toks = << >> THEN FALSE
    ELSE IF Head(toks) = LB
         THEN IF Len(toks) >= 2 /\ toks[2] = LB
              THEN FormatRaises(SubSeq(toks, 3, Len(toks)), values)
              ELSE IF Len(toks) >= 3 /\ toks[2] # RB /\ toks[3] = RB
                   THEN ~HasKey(values, toks[2])
                        \/ FormatRaises(SubSeq(toks, 4, Len(toks)), values)
                   ELSE TRUE
    ELSE IF Head(toks) = RB
         THEN IF Len(toks) >= 2 /\ toks[2] = RB
              THEN FormatRaises(SubSeq(toks, 3, Len(toks)), values)
              ELSE TRUE
    ELSE FormatRaises(Tail(toks), values)

\* str.format(**values) where it does not raise
RECURSIVE Format(_, _)
Format(toks, values) ==
    IF toks = << >> THEN << >>
    ELSE IF Head(toks) = LB
         THEN IF toks[2] = LB
              THEN <<LB>> \o Format(SubSeq(toks, 3, Len(toks)), values)
              ELSE <<Get(values, toks[2])>>
                   \o Format(SubSeq(toks, 4, Len(toks)), values)
    ELSE IF Head(toks) = RB
         THEN <<RB>> \o Format(SubSeq(toks, 3, Len(toks)), values)
    ELSE <<Head(toks)>> \o Format(Tail(toks), values)

\* ------------------------------------------------------------------ Prompt
Prompt(template, schema) == [template |-> template, schema |-> schema]

render_raises(p, values) == FormatRaises(p.template, values)

\* Prompt.render
render(p, values) ==
    Format(p.template, values) \o <<"\n">> \o SchemaPrompt(p.schema)

\* Prompt.validate: <<ok, err, exp>> with err, exp optional strings
Prompt_validate(p, data) ==
    LET r == validate_with_error(p.schema, data)
    IN  IF r[1] THEN <<TRUE, None, None>>
        ELSE <<FALSE, Some(r[2]), Some(IF Len(r) > 2 THEN r[3] ELSE "")>>

\* ------------------------------------------------------------------ inputs
\* 'Give me two {attribute} numbers'
Template == <<"Give me two ", LB, "attribute", RB, " numbers">>

prompt == Prompt(Template, RandomNumbers)

prompt_50 ==
    LET
        BroaderInterval ==
            [name |-> "BroaderInterval", fields |-> << <<"x", Interval(0, 50)>> >>,
             constraints |-> << >>]
    IN
        Prompt(Template, BroaderInterval)

\* call-time template parameters (**tmpl)
Tmpls == { <<<<"attribute", "lucky">>>>, <<<<"attribute", "odd">>>>, << >> }

\* a BaseStrategy object
BaseStrategy(p, retries) == [prompt |-> p, retries |-> retries]

BaseStrategies ==
    LET
        Prompts == {prompt, prompt_50}
    IN
        {BaseStrategy(p, r) : p \in Prompts, r \in -1..MaxRetries}

\* AutoRepair.repair_backoff
repair_backoff == 0

\* ------------------------------------------------------------------- state
VARIABLES
    cfg,      \* the strategy object that is called and the call's arguments
    pc,       \* where the call is
    run,      \* frame of the BaseStrategy.__call__ that is running
    outer,    \* locals of the Fallback / AutoRepair __call__ and of _repair
    result,   \* what the call returned (when pc = "done")
    heap,     \* the reply objects, by reference
    calls,    \* the generator calls made so far, in order
    sleeps,   \* number of time.sleep calls made so far
    objs,     \* attributes of the strategy and prompt objects, by object name
    stack     \* the _temp_attrs contexts entered and not yet left

vars == <<cfg, pc, run, outer, result, heap, calls, sleeps, objs, stack>>

Tuple(reply, ok, err, exp) ==
    [reply |-> reply, ok |-> ok, err |-> err, exp |-> exp]

NoRun ==
    [who |-> "none", prompt |-> prompt, retries |-> 0, txt |-> "", i |-> 0,
     reply |-> 0, last_err |-> None, last_exp |-> None]

NoOuter ==
    [reply |-> 0, ok |-> FALSE, err |-> None, exp |-> None,
     runner_prompt |-> prompt, fixed |-> 0, depth |-> 0,
     new_reply |-> 0, ok2 |-> FALSE]

Init ==
    LET
        Configs ==
            {[kind |-> "BaseStrategy", inner |-> b, fallback |-> b, depth |-> 0,
              mode |-> "sub", repair_retries |-> 0, call_prompt |-> None, tmpl |-> t] :
                b \in BaseStrategies, t \in Tmpls}
            \cup
            {[kind |-> "Fallback", inner |-> b, fallback |-> f, depth |-> 0,
              mode |-> "sub", repair_retries |-> 0, call_prompt |-> None, tmpl |-> t] :
                b \in BaseStrategies, f \in BaseStrategies, t \in Tmpls}
            \cup
            {[kind |-> "AutoRepair", inner |-> b, fallback |-> b, depth |-> d,
              mode |-> m, repair_retries |-> rr, call_prompt |-> cp, tmpl |-> t] :
                b \in BaseStrategies, d \in 0..MaxDepth, m \in {"sub", "full"},
                rr \in 0..MaxRepairRetries, cp \in {None, Some(prompt_50)},
                t \in Tmpls}
    IN
        /\ cfg \in Configs
        /\ pc = "start"
        /\ run = NoRun
        /\ outer = NoOuter
        /\ result = Tuple(0, FALSE, None, None)
        /\ heap = << >>
        /\ calls = << >>
        /\ sleeps = 0
        /\ objs = << >>
        /\ stack = << >>

\* --------------------------------------------------------- BaseStrategy
RunningPcs ==
    {"base", "fb_inner", "fb_fallback", "ar_inner", "ar_repair",
     "ov_base", "ov_fb_inner", "ov_fb_fallback"}

\* BaseStrategy.__call__ up to the loop: txt = self.prompt.render(**tmpl)
StartRun(who, b, values) ==
    [who |-> who, prompt |-> b.prompt, retries |-> b.retries,
     txt |-> Join(render(b.prompt, values)), i |-> 0,
     reply |-> 0, last_err |-> None, last_exp |-> None]

\* a BaseStrategy.__call__ returns r to whoever called it
Return(r) ==
    CASE pc = "base" ->
            /\ pc' = "done" /\ result' = r /\ UNCHANGED outer
      [] pc = "fb_inner" ->
            /\ pc' = "fb_after_inner"
            /\ outer' = [outer EXCEPT !.reply = r.reply, !.ok = r.ok,
                                      !.err = r.err, !.exp = r.exp]
            /\ UNCHANGED result
      [] pc = "fb_fallback" ->
            /\ pc' = "done" /\ result' = r /\ UNCHANGED outer
      [] pc = "ar_inner" ->
            /\ pc' = "ar_after_inner"
            /\ outer' = [outer EXCEPT !.reply = r.reply, !.ok = r.ok,
                                      !.err = r.err, !.exp = r.exp]
            /\ UNCHANGED result
      [] pc = "ar_repair" ->
            /\ pc' = "ar_after_repair"
            /\ outer' = [outer EXCEPT !.new_reply = r.reply, !.ok2 = r.ok]
            /\ UNCHANGED result
      [] pc = "ov_base" ->
            /\ pc' = "ov_exit" /\ result' = r /\ UNCHANGED outer
      [] pc = "ov_fb_inner" ->
            /\ pc' = "ov_fb_after_inner"
            /\ outer' = [outer EXCEPT !.reply = r.reply, !.ok = r.ok,
                                      !.err = r.err, !.exp = r.exp]
            /\ UNCHANGED result
      [] pc = "ov_fb_fallback" ->
            /\ pc' = "ov_exit" /\ result' = r /\ UNCHANGED outer

\* a loop that runs once too often
range_len_off_by_one(retries) == IF retries + 2 > 0 THEN retries + 2 ELSE 0

\* range(self.retries + 1): the number of iterations of the retry loop
range_len(retries) == IF retries + 1 > 0 THEN retries + 1 ELSE 0

\* a return after the loop that drops the error of the last attempt
exhausted_result_no_error == Tuple(run.reply, FALSE, None, None)

\* what BaseStrategy.__call__ returns after the loop
exhausted_result == Tuple(run.reply, FALSE, run.last_err, run.last_exp)

\* what BaseStrategy.__call__ returns from inside the loop
valid_result(reply) == Tuple(reply, TRUE, None, None)

\* a call of a BaseStrategy object by the user
BaseStrategy_call ==
    /\ pc = "start" /\ cfg.kind = "BaseStrategy"
    /\ IF render_raises(cfg.inner.prompt, cfg.tmpl)
       THEN pc' = "raised" /\ UNCHANGED run
       ELSE pc' = "base" /\ run' = StartRun("inner", cfg.inner, cfg.tmpl)
    /\ UNCHANGED <<cfg, outer, result, heap, calls, sleeps>>
    /\ UNCHANGED <<objs, stack>>

\* one iteration of the retry loop: ask_ai, validate, return or sleep
BaseStrategy_attempt ==
    LET
        \* what the generator may reply
        Replies ==
            { EmptyDict,
              << <<"x", IntV(5)>> >>,
              << <<"x", IntV(20)>> >>,
              << <<"x", IntV(60)>> >>,
              << <<"x", StrV("a")>> >> }
        \* where an exception goes: to the caller, or first through the finally
        \* clauses of the with-blocks a wrapper has entered
        Raised == IF pc \in {"ov_base", "ov_fb_inner", "ov_fb_fallback"}
                  THEN "ov_raise" ELSE "raised"
    IN
        /\ pc \in RunningPcs
        /\ run.i < range_len(run.retries)
        /\ \E d \in Replies :
             LET ref == Len(heap) + 1
             IN  /\ heap' = Append(heap, d)
                 /\ calls' = Append(calls, [who |-> run.who, txt |-> run.txt,
                                            reply |-> ref, data |-> d,
                                            depth |-> outer.depth])
                 /\ IF validate_raises(run.prompt.schema, d)
                    THEN /\ pc' = Raised
                         /\ run' = [run EXCEPT !.reply = ref]
                         /\ UNCHANGED <<outer, result, sleeps>>
                    ELSE LET v == Prompt_validate(run.prompt, d)
                         IN  IF v[1]
                             THEN /\ Return(valid_result(ref))
                                  /\ run' = [run EXCEPT !.reply = ref]
                                  /\ UNCHANGED sleeps
                             ELSE /\ run' = [run EXCEPT !.reply = ref,
                                                        !.last_err = v[2],
                                                        !.last_exp = v[3],
                                                        !.i = @ + 1]
                                  /\ sleeps' = sleeps + 1
                                  /\ UNCHANGED <<pc, outer, result>>
        /\ UNCHANGED cfg
        /\ UNCHANGED <<objs, stack>>

\* the loop is over without a valid reply
BaseStrategy_exhausted ==
    /\ pc \in RunningPcs
    /\ ~(run.i < range_len(run.retries))
    /\ Return(exhausted_result)
    /\ UNCHANGED <<cfg, run, heap, calls, sleeps>>
    /\ UNCHANGED <<objs, stack>>

\* ------------------------------------------------------------- Fallback
\* a Fallback that runs the fallback strategy whatever inner returned
fallback_always(ok) == TRUE

\* `if ok: return ...` of Fallback.__call__: is the fallback strategy run
fallback_needed(ok) == ~ok

\* a Fallback that drops the call-time parameters on the way to fallback
fallback_tmpl_fixed == << <<"attribute", "lucky">> >>

\* the keyword arguments Fallback.__call__ passes to self.fallback
fallback_tmpl == cfg.tmpl

\* a Fallback that starts with the fallback strategy
Fallback_call_fallback_first ==
    /\ pc = "start" /\ cfg.kind = "Fallback"
    /\ IF render_raises(cfg.fallback.prompt, cfg.tmpl)
       THEN pc' = "raised" /\ UNCHANGED run
       ELSE /\ pc' = "fb_inner"
            /\ run' = StartRun("fallback", cfg.fallback, cfg.tmpl)
    /\ UNCHANGED <<cfg, outer, result, heap, calls, sleeps>>
    /\ UNCHANGED <<objs, stack>>

\* Fallback.__call__ up to the call of self.inner
Fallback_call ==
    /\ pc = "start" /\ cfg.kind = "Fallback"
    /\ IF render_raises(cfg.inner.prompt, cfg.tmpl)
       THEN pc' = "raised" /\ UNCHANGED run
       ELSE pc' = "fb_inner" /\ run' = StartRun("inner", cfg.inner, cfg.tmpl)
    /\ UNCHANGED <<cfg, outer, result, heap, calls, sleeps>>
    /\ UNCHANGED <<objs, stack>>

\* Fallback.__call__ after self.inner returned
Fallback_after_inner ==
    /\ pc = "fb_after_inner"
    /\ IF ~fallback_needed(outer.ok)
       THEN /\ pc' = "done"
            /\ result' = Tuple(outer.reply, outer.ok, outer.err, outer.exp)
            /\ UNCHANGED run
       ELSE IF render_raises(cfg.fallback.prompt, fallback_tmpl)
            THEN pc' = "raised" /\ UNCHANGED <<run, result>>
            ELSE /\ pc' = "fb_fallback"
                 /\ run' = StartRun("fallback", cfg.fallback, fallback_tmpl)
                 /\ UNCHANGED result
    /\ UNCHANGED <<cfg, outer, heap, calls, sleeps>>
    /\ UNCHANGED <<objs, stack>>

\* ----------------------------------------------------------- AutoRepair
\* an assignment `fixed = reply` in place of the copy
deepcopy_alias(h, ref) == ref

\* copy.deepcopy(reply): the reference of the copy (None stays None)
deepcopy(h, ref) == IF ref = 0 THEN 0 ELSE Len(h) + 1

\* the heap after copy.deepcopy(reply)
deepcopy_heap(h, ref) == IF ref = 0 THEN h ELSE Append(h, h[ref])

\* a repair that forgets to patch the working copy
clear_update_skipped(h, repl, new_reply) == h

\* repl.clear(); repl.update(new_reply)
clear_update(h, repl, new_reply) == [h EXCEPT ![repl] = h[new_reply]]

\* the strategy AutoRepair.__call__ runs: self.inner, or a temporary
\* BaseStrategy around the prompt= argument
RunnerInner ==
    IF cfg.call_prompt # None
    THEN BaseStrategy(cfg.call_prompt[1], cfg.inner.retries)
    ELSE cfg.inner

\* AutoRepair.__call__ up to the call of inner
AutoRepair_call ==
    /\ pc = "start" /\ cfg.kind = "AutoRepair"
    /\ IF render_raises(RunnerInner.prompt, cfg.tmpl)
       THEN pc' = "raised" /\ UNCHANGED <<run, outer>>
       ELSE /\ pc' = "ar_inner"
            /\ run' = StartRun("inner", RunnerInner, cfg.tmpl)
            /\ outer' = [outer EXCEPT !.runner_prompt = RunnerInner.prompt]
    /\ UNCHANGED <<cfg, result, heap, calls, sleeps>>
    /\ UNCHANGED <<objs, stack>>

\* an early return that drops inner's error pair
inner_result_no_error == Tuple(outer.reply, outer.ok, None, None)

\* `return reply, ok, err, exp` of AutoRepair.__call__
inner_result == Tuple(outer.reply, outer.ok, outer.err, outer.exp)

\* `if ok or depth == 0` of AutoRepair.__call__
no_repair(ok, depth) == ok \/ depth = 0

\* AutoRepair.__call__ after inner returned, up to the call of _repair
AutoRepair_after_inner ==
    /\ pc = "ar_after_inner"
    /\ IF no_repair(outer.ok, cfg.depth)
       THEN /\ pc' = "done"
            /\ result' = inner_result
            /\ UNCHANGED <<outer, heap>>
       ELSE /\ pc' = "ar_repair_enter"
            /\ heap' = deepcopy_heap(heap, outer.reply)
            /\ outer' = [outer EXCEPT !.fixed = deepcopy(heap, outer.reply),
                                      !.depth = cfg.depth]
            /\ UNCHANGED result
    /\ UNCHANGED <<cfg, run, calls, sleeps>>
    /\ UNCHANGED <<objs, stack>>

\* the text of the repair prompt's template
repair_txt(repl) ==
    LET fix_txt == repair_prompt(outer.runner_prompt.schema, repl)
    IN  EscapeBraces(IF cfg.mode = "sub"
                     THEN fix_txt
                     ELSE render(outer.runner_prompt, cfg.tmpl)
                          \o <<"\n---\nFIX:\n">> \o fix_txt)

\* a repair strategy that grants itself one more retry than configured
repair_strategy_extra_retry(repl) ==
    BaseStrategy(Prompt(repair_txt(repl), outer.runner_prompt.schema),
                 cfg.repair_retries + 1)

\* the one-shot strategy of a repair round
repair_strategy(repl) ==
    BaseStrategy(Prompt(repair_txt(repl), outer.runner_prompt.schema),
                 cfg.repair_retries)

\* a recursion that spends two units of budget per round
next_depth_skips(depth) == IF depth >= 2 THEN depth - 2 ELSE 0

\* the budget _repair passes to its recursive call
next_depth(depth) == depth - 1

\* a failure that hands out the last failed repair reply
repair_failed_last_attempt == Tuple(outer.new_reply, FALSE, outer.err, outer.exp)

\* what AutoRepair.__call__ returns when _repair returned False
repair_failed == Tuple(outer.reply, FALSE, outer.err, outer.exp)

\* what AutoRepair.__call__ returns when _repair returned True
repair_succeeded == Tuple(outer.fixed, TRUE, None, None)

\* AutoRepair._repair from its entry to the call of repair_strategy
_repair ==
    /\ pc = "ar_repair_enter"
    /\ IF outer.depth = 0
       THEN /\ pc' = "done" /\ result' = repair_failed
            /\ UNCHANGED run
       ELSE IF outer.fixed = 0
               \/ validate_raises(outer.runner_prompt.schema,
                                  heap[outer.fixed])
            THEN pc' = "raised" /\ UNCHANGED <<run, result>>
       ELSE IF Prompt_validate(outer.runner_prompt, heap[outer.fixed])[1]
            THEN /\ pc' = "done" /\ result' = repair_succeeded
                 /\ UNCHANGED run
       ELSE IF render_raises(repair_strategy(heap[outer.fixed]).prompt,
                             EmptyDict)
            THEN pc' = "raised" /\ UNCHANGED <<run, result>>
       ELSE /\ pc' = "ar_repair"
            /\ run' = StartRun("repair", repair_strategy(heap[outer.fixed]),
                               EmptyDict)
            /\ UNCHANGED result
    /\ UNCHANGED <<cfg, outer, heap, calls, sleeps>>
    /\ UNCHANGED <<objs, stack>>

\* AutoRepair._repair after repair_strategy returned
_repair_after_strategy ==
    /\ pc = "ar_after_repair"
    /\ IF outer.ok2
       THEN /\ heap' = clear_update(heap, outer.fixed, outer.new_reply)
            /\ pc' = "done" /\ result' = repair_succeeded
            /\ UNCHANGED <<outer, sleeps>>
       ELSE /\ sleeps' = IF repair_backoff # 0 THEN sleeps + 1 ELSE sleeps
            /\ outer' = [outer EXCEPT !.depth = next_depth(outer.depth)]
            /\ pc' = "ar_repair_enter"
            /\ UNCHANGED <<heap, result>>
    /\ UNCHANGED <<cfg, run, calls>>
    /\ UNCHANGED <<objs, stack>>

\* --------------------------------------------------- per-call overrides
\* the BaseStrategy a strategy object is, read through its attributes
strategy(h, o) == BaseStrategy(h[h[o].prompt], h[o].retries)

\* d[k] = v on a Python dict
DictSet(d, k, v) ==
    IF HasKey(d, k)
    THEN [i \in 1..Len(d) |-> IF d[i][1] = k THEN <<k, v>> ELSE d[i]]
    ELSE Append(d, <<k, v>>)

\* _temp_attrs: saved = {k: getattr(obj, k) for k in patch}
saved(h, o, patch) ==
    [i \in 1..Len(patch) |-> <<patch[i][1], h[o][patch[i][1]]>>]

\* for k, v in d.items(): setattr(obj, k, v)
RECURSIVE setattrs(_, _, _, _)
setattrs(h, o, d, i) ==
    IF i > Len(d) THEN h
    ELSE setattrs([h EXCEPT ![o][d[i][1]] = d[i][2]], o, d, i + 1)

\* entering `with _temp_attrs(obj, **patch)`: the store and the contexts
\* after it; an empty patch enters a context that saves and sets nothing
_temp_attrs(h, st, o, patch) ==
    IF patch = << >> THEN <<h, st>>
    ELSE <<setattrs(h, o, patch, 1),
           Append(st, [obj |-> o, saved |-> saved(h, o, patch)])>>

\* an exit that runs the finally clauses in the order the contexts were
\* entered
RECURSIVE Unwind_in_entry_order(_, _)
Unwind_in_entry_order(h, st) ==
    IF st = << >> THEN h
    ELSE Unwind_in_entry_order(setattrs(h, st[1].obj, st[1].saved, 1),
                               Tail(st))

\* leaving the with-blocks (ExitStack.__exit__ and the nested with of
\* override_self): the finally clause of every entered _temp_attrs, last
\* entered first
RECURSIVE Unwind(_, _)
Unwind(h, st) ==
    IF st = << >> THEN h
    ELSE Unwind(setattrs(h, st[Len(st)].obj, st[Len(st)].saved, 1),
                SubSeq(st, 1, Len(st) - 1))

\* A call's keyword arguments other than the template parameters: a dict
\* as a sequence of <<key, value>>, a key being the parts key.split("__", 1)
\* yields: <<"inner">> for inner=..., <<"inner", "prompt">> for
\* inner__prompt=...
pnames == {"inner", "fallback"}

\* a kwroute that patches the inner strategy whatever the namespace
target_always_inner(h, pname) == h.self.inner

\* kwroute: target = bound.setdefault(pname, getattr(self, pname))
target(h, pname) == h.self[pname]

\* kwroute, the double-underscore overrides, in the order of kwargs
RECURSIVE dunder_patches(_, _, _)
dunder_patches(h, kwargs, i) ==
    IF i > Len(kwargs) THEN << >>
    ELSE (IF Len(kwargs[i][1]) = 2 /\ kwargs[i][1][1] \in pnames
          THEN << <<target(h, kwargs[i][1][1]),
                    << <<kwargs[i][1][2], kwargs[i][2]>> >> >> >>
          ELSE << >>)
         \o dunder_patches(h, kwargs, i + 1)

\* the patches list of kwroute
patches(h, kwargs) ==
    LET
        \* kwroute, the direct dict overrides, for pname in pnames
        dict_patches ==
            (IF HasKey(kwargs, <<"inner">>)
             THEN << <<target(h, "inner"), Get(kwargs, <<"inner">>)>> >> ELSE << >>)
            \o (IF HasKey(kwargs, <<"fallback">>)
                THEN << <<target(h, "fallback"), Get(kwargs, <<"fallback">>)>> >>
                ELSE << >>)
    IN
        dict_patches \o dunder_patches(h, kwargs, 1)

\* the kwargs kwroute has not popped
kwroute_rest(kwargs) ==
    SelectSeq(kwargs, LAMBDA e : e[1][1] \notin pnames)

\* for target, patch in patches: stack.enter_context(_temp_attrs(...))
RECURSIVE enter_context(_, _, _)
enter_context(h, st, ps) ==
    IF ps = << >> THEN <<h, st>>
    ELSE LET e == _temp_attrs(h, st, ps[1][1], ps[1][2])
         IN  enter_context(e[1], e[2], Tail(ps))

\* override_self: the loop over the keys holding "__"; root == "self"
\* writes into self_patch, every other root into prompt_patch
RECURSIVE dunder_into(_, _, _, _)
dunder_into(patch, kwargs, i, for_self) ==
    IF i > Len(kwargs) THEN patch
    ELSE dunder_into(IF Len(kwargs[i][1]) = 2
                        /\ ((kwargs[i][1][1] = "self") <=> for_self)
                     THEN DictSet(patch, kwargs[i][1][2], kwargs[i][2])
                     ELSE patch,
                     kwargs, i + 1, for_self)

self_patch(own_params, kwargs) ==
    LET
        \* override_self: the own parameters that are bound and not None, in the
        \* order of the signature (self has every one of them as an attribute)
        own_patch ==
            LET given(n) == IF HasKey(kwargs, <<n>>)
                            THEN << <<n, Get(kwargs, <<n>>)>> >> ELSE << >>
            IN  given(own_params[1]) \o given(own_params[2])
    IN
        dunder_into(own_patch, kwargs, 1, TRUE)

prompt_patch(kwargs) == dunder_into(<< >>, kwargs, 1, FALSE)

\* override_self: with _temp_attrs(self, **self_patch),
\*                     _temp_attrs(getattr(self, "prompt", None), **prompt_patch)
\* the second context manager is built after the first was entered
override_self(h, st, o, own_params, kwargs) ==
    LET a == _temp_attrs(h, st, o, self_patch(own_params, kwargs))
    IN  _temp_attrs(a[1], a[2], a[1][o].prompt, prompt_patch(kwargs))

InitOverride ==
    LET
        \* The objects of a call, by name: the called Fallback ("self"), the two
        \* BaseStrategy objects and the two Prompt objects.  A strategy holds its
        \* prompt by reference (the name of a Prompt object).  A called BaseStrategy
        \* is the object "inner".
        Objects(same, pf, ri, rf) ==
            [self     |-> [inner |-> "inner",
                           fallback |-> IF same THEN "inner" ELSE "fallback",
                           prompt |-> "prompt"],
             inner    |-> [prompt |-> "prompt", retries |-> ri],
             fallback |-> [prompt |-> pf, retries |-> rf],
             prompt    |-> prompt,
             prompt_50 |-> prompt_50]
    IN
        LET
            OverrideConfigs ==
                LET
                    \* the overrides the calls of this model are made with
                    BaseKwargs ==
                        { << >>,
                          << <<<<"prompt">>, "prompt_50">> >>,
                          << <<<<"retries">>, MaxRetries>> >>,
                          << <<<<"prompt">>, "prompt_50">>, <<<<"retries">>, 0>> >>,
                          << <<<<"retries">>, 0>>, <<<<"self", "retries">>, MaxRetries>> >>,
                          << <<<<"prompt">>, "prompt_50">>,
                             <<<<"p", "schema">>, RandomNumbers>> >> }
                    FallbackKwargs ==
                        { << >> }
                        \cup { << <<<<n, "prompt">>, p>> >> :
                                 n \in pnames, p \in {"prompt", "prompt_50"} }
                        \cup { << <<<<"inner", "prompt">>, p>>, <<<<"fallback", "prompt">>, q>> >> :
                                 p \in {"prompt", "prompt_50"}, q \in {"prompt", "prompt_50"} }
                        \cup { << <<<<"inner">>, << <<"prompt", "prompt_50">> >> >>,
                                  <<<<"inner", "prompt">>, "prompt">> >>,
                               << <<<<"fallback">>, << <<"prompt", "prompt_50">> >> >> >>,
                               << <<<<"inner">>, << <<"retries", MaxRetries>> >> >>,
                                  <<<<"inner", "retries">>, 0>> >>,
                               << <<<<"fallback", "retries">>, MaxRetries>>,
                                  <<<<"inner", "retries">>, 0>> >> }
                IN
                    {[kind |-> "BaseStrategy", tmpl |-> t, kw |-> k,
                      objs0 |-> Objects(FALSE, "prompt", ri, 0)] :
                        t \in Tmpls, k \in BaseKwargs, ri \in 0..MaxRetries}
                    \cup
                    {[kind |-> "Fallback", tmpl |-> t, kw |-> k,
                      objs0 |-> Objects(same, pf, ri, 0)] :
                        t \in Tmpls, k \in FallbackKwargs, same \in BOOLEAN,
                        pf \in {"prompt", "prompt_50"}, ri \in {0, MaxRetries}}
        IN
            /\ cfg \in OverrideConfigs
            /\ pc = "start"
            /\ run = NoRun
            /\ outer = NoOuter
            /\ result = Tuple(0, FALSE, None, None)
            /\ heap = << >>
            /\ calls = << >>
            /\ sleeps = 0
            /\ objs = cfg.objs0
            /\ stack = << >>

\* the wrapper of override_self around BaseStrategy.__call__, and the
\* call itself up to its loop
override_BaseStrategy ==
    /\ pc = "start" /\ cfg.kind = "BaseStrategy"
    /\ LET e == override_self(objs, stack, "inner",
                              <<"prompt", "retries">>, cfg.kw)
           b == strategy(e[1], "inner")
       IN  /\ objs' = e[1]
           /\ stack' = e[2]
           /\ IF render_raises(b.prompt, cfg.tmpl)
              THEN pc' = "ov_raise" /\ UNCHANGED run
              ELSE pc' = "ov_base" /\ run' = StartRun("inner", b, cfg.tmpl)
    /\ UNCHANGED <<cfg, outer, result, heap, calls, sleeps>>

\* the wrappers of kwroute and override_self around Fallback.__call__, and
\* the call itself up to the loop of self.inner (whose own override_self
\* wrapper gets the template parameters only and patches nothing)
override_Fallback ==
    /\ pc = "start" /\ cfg.kind = "Fallback"
    /\ LET k == enter_context(objs, stack, patches(objs, cfg.kw))
           ordered_args == << <<<<"inner">>, objs.self.inner>>,
                              <<<<"fallback">>, objs.self.fallback>> >>
           e == override_self(k[1], k[2], "self", <<"inner", "fallback">>,
                              ordered_args \o kwroute_rest(cfg.kw))
           b == strategy(e[1], e[1].self.inner)
       IN  /\ objs' = e[1]
           /\ stack' = e[2]
           /\ IF render_raises(b.prompt, cfg.tmpl)
              THEN pc' = "ov_raise" /\ UNCHANGED run
              ELSE pc' = "ov_fb_inner" /\ run' = StartRun("inner", b, cfg.tmpl)
    /\ UNCHANGED <<cfg, outer, result, heap, calls, sleeps>>

\* Fallback.__call__ after self.inner returned, inside the with-blocks
override_Fallback_after_inner ==
    /\ pc = "ov_fb_after_inner"
    /\ LET b == strategy(objs, objs.self.fallback)
       IN  IF ~fallback_needed(outer.ok)
           THEN /\ pc' = "ov_exit"
                /\ result' = Tuple(outer.reply, outer.ok, outer.err, outer.exp)
                /\ UNCHANGED run
           ELSE IF render_raises(b.prompt, fallback_tmpl)
                THEN pc' = "ov_raise" /\ UNCHANGED <<run, result>>
                ELSE /\ pc' = "ov_fb_fallback"
                     /\ run' = StartRun("fallback", b, fallback_tmpl)
                     /\ UNCHANGED result
    /\ UNCHANGED <<cfg, outer, heap, calls, sleeps, objs, stack>>

\* the with-blocks of the wrappers are left, by return or by exception
wrapper_exit ==
    /\ pc \in {"ov_exit", "ov_raise"}
    /\ objs' = Unwind(objs, stack)
    /\ stack' = << >>
    /\ pc' = IF pc = "ov_exit" THEN "done" ELSE "raised"
    /\ UNCHANGED <<cfg, run, outer, result, heap, calls, sleeps>>

NextOverride ==
    \/ override_BaseStrategy
    \/ override_Fallback
    \/ override_Fallback_after_inner
    \/ BaseStrategy_attempt
    \/ BaseStrategy_exhausted
    \/ wrapper_exit

SpecOverride == InitOverride /\ [][NextOverride]_vars

\* ------------------------------------------------- validating an instance
\* the largest number of keys of an instance
MaxKeys == 3

\* the schemas of the schema doctests, their fields named x and y
TwoIntervals ==
    [name |-> "TwoIntervals",
     fields |-> << <<"x", Interval(0, 10)>>, <<"y", Interval(0, 10)>> >>,
     constraints |-> << >>]

\* two @constraint functions, declared in this order
ParitySchema ==
    [name |-> "ParitySchema",
     fields |-> << <<"x", Prim("int")>>, <<"y", Prim("int")>> >>,
     constraints |->
        << [path |-> "y", desc |-> "must be odd if x is even and vice versa",
            fn |-> "parity"],
           [path |-> "x", desc |-> "must be smaller than y", fn |-> "less"] >>]

OptionalSchema ==
    [name |-> "OptionalSchema",
     fields |-> << <<"x", Optional(Prim("int"))>>, <<"y", Prim("int")>> >>,
     constraints |-> << >>]

OptionalUnion ==
    [name |-> "OptionalUnion",
     fields |-> << <<"x", Optional(Union(<<Prim("int"), Prim("str")>>))>>,
                   <<"y", Prim("int")>> >>,
     constraints |-> << >>]

OptionalRule ==
    [name |-> "OptionalRule",
     fields |-> << <<"x", Optional(Interval(0, 10))>>,
                   <<"y", NaturalNumber>> >>,
     constraints |-> << >>]

UnionSchema ==
    [name |-> "UnionSchema",
     fields |-> << <<"x", Union(<<Prim("int"), Prim("str")>>)>> >>,
     constraints |-> << >>]

UnionRule ==
    [name |-> "UnionRule",
     fields |-> << <<"x", Union(<<Interval(0, 10), Prim("str")>>)>> >>,
     constraints |-> << >>]

\* a schema of one field of a primitive type
Primitive(prim) ==
    [name |-> prim, fields |-> << <<"x", Prim(prim)>> >>,
     constraints |-> << >>]

Primitives == {"str", "int", "float", "bool"}

\* the largest length of a list value
MaxLen == 3

\* the list and tuple schemas of the schema doctests, and a list of a rule
ListSchema ==
    [name |-> "ListSchema", fields |-> << <<"x", List(Prim("int"))>> >>,
     constraints |-> << >>]

ListSchemas ==
    LET
        TupleSchema ==
            [name |-> "TupleSchema",
             fields |-> << <<"x", TupleOf(<<Prim("int"), Prim("str")>>)>> >>,
             constraints |-> << >>]
        ListRule ==
            [name |-> "ListRule", fields |-> << <<"x", List(Interval(0, 10))>> >>,
             constraints |-> << >>]
    IN
        {ListSchema, TupleSchema, ListRule}

\* nested schemas: an inner field named like the outer one (InA in OutA,
\* Mid in Outer), three levels (Outer, Outer2), a union and a list inside
Inner ==
    [name |-> "Inner", fields |-> << <<"x", Prim("int")>> >>,
     constraints |-> << >>]

Mid ==
    [name |-> "Mid", fields |-> << <<"a", Inner>> >>, constraints |-> << >>]

Outer ==
    [name |-> "Outer", fields |-> << <<"a", Mid>> >>, constraints |-> << >>]

InA ==
    [name |-> "InA", fields |-> << <<"a", Prim("int")>> >>,
     constraints |-> << >>]

OutL ==
    [name |-> "OutL", fields |-> << <<"a", List(InA)>> >>,
     constraints |-> << >>]

NestedSchemas ==
    LET
        Mid2 ==
            [name |-> "Mid2", fields |-> << <<"b", Inner>> >>, constraints |-> << >>]
        Outer2 ==
            [name |-> "Outer2", fields |-> << <<"a", Mid2>> >>, constraints |-> << >>]
        OutA ==
            [name |-> "OutA", fields |-> << <<"a", InA>> >>, constraints |-> << >>]
        OutU ==
            [name |-> "OutU", fields |-> << <<"a", UnionSchema>> >>,
             constraints |-> << >>]
    IN
        {Outer, Outer2, OutA, OutU, OutL}

\* how often the caller validates the instance
MaxValidations == 2

\* the instance is passed by reference: it is the object at heap[1]
InitValidate ==
    LET
        ValidateConfigs ==
            LET
                \* every field optional
                AllOptional ==
                    [name |-> "AllOptional",
                     fields |-> << <<"x", Optional(Prim("int"))>>,
                                   <<"y", Optional(Prim("str"))>> >>,
                     constraints |-> << >>]
                MySchema ==
                    [name |-> "MySchema",
                     fields |-> << <<"x", Prim("int")>>, <<"y", Prim("str")>> >>,
                     constraints |-> << >>]
                ValidateSchemas ==
                    {TwoIntervals, MySchema, ParitySchema, OptionalSchema, OptionalUnion,
                     OptionalRule, UnionSchema, UnionRule, AllOptional}
                    \cup {Primitive(p) : p \in Primitives}
                \* the values of an instance: one or two of every runtime type
                Values ==
                    {IntV(5), IntV(60), StrV("a"), BoolV(TRUE), BoolV(FALSE), FloatV(1),
                     NullV, ListV(<<IntV(1)>>)}
                \* the keys of an instance: the declared x and y, the undeclared z
                KeyNames == {"x", "y", "z"}
                \* the instances: dicts of at most MaxKeys keys, in every key order
                Instances ==
                    UNION {{d \in [1..n -> KeyNames \X Values] :
                               \A i \in 1..n : \A j \in 1..n : i # j => d[i][1] # d[j][1]} :
                           n \in 0..MaxKeys}
                \* the elements of a list value
                Elements == {IntV(5), IntV(60), StrV("a"), NullV}
                \* the values of a list-typed field: the lists of at most MaxLen elements
                \* and the values that are no list
                ListValues ==
                    {ListV(l) : l \in UNION {[1..n -> Elements] : n \in 0..MaxLen}}
                    \cup (Values \ {ListV(<<IntV(1)>>)})
                \* the values of a nested field: scalars, a list, and objects of one key
                \* nested up to two levels deep, and lists of such objects
                Leaves == {IntV(5), StrV("a"), ListV(<<IntV(1)>>)}
                Objects1 ==
                    {DictV(<< >>)}
                    \cup {DictV(<< <<k, v>> >>) : k \in {"a", "b", "x", "q"}, v \in Leaves}
                Objects2 ==
                    {DictV(<< <<k, v>> >>) : k \in {"a", "b", "x"}, v \in Leaves \cup Objects1}
                ObjectLists ==
                    {ListV(l) :
                        l \in UNION {[1..n -> {DictV(<< <<"a", IntV(5)>> >>),
                                               DictV(<< <<"a", StrV("a")>> >>),
                                               DictV(<< <<"q", IntV(5)>> >>)}] : n \in 1..2}}
                NestedValues == Leaves \cup Objects1 \cup Objects2 \cup ObjectLists
            IN
                {[kind |-> "validate", schema |-> S, data |-> d] :
                    S \in ValidateSchemas, d \in Instances}
                \cup
                {[kind |-> "validate", schema |-> S, data |-> << <<"x", v>> >>] :
                    S \in ListSchemas, v \in ListValues}
                \cup
                {[kind |-> "validate", schema |-> S, data |-> << <<"a", v>> >>] :
                    S \in NestedSchemas, v \in NestedValues}
    IN
        /\ cfg \in ValidateConfigs
        /\ pc = "start"
        /\ run = NoRun
        /\ outer = NoOuter
        /\ result = <<FALSE, "", "">>
        /\ heap = <<cfg.data>>
        /\ calls = << >>
        /\ sleeps = 0
        /\ objs = << >>
        /\ stack = << >>

\* a validation that consumes the keys of the instance it checks
validated_instance_consumed(cls, data) == << >>

\* the instance after validate_with_error(data): no statement of the
\* validation assigns to it
validated_instance(cls, data) == data

\* one call of Schema.validate_with_error(data)
Schema_validate ==
    /\ pc \in {"start", "done"} /\ cfg.kind = "validate"
    /\ Len(calls) < MaxValidations
    /\ calls' = Append(calls, [data |-> heap[1]])
    /\ heap' = <<validated_instance(cfg.schema, heap[1])>>
    /\ IF validate_raises(cfg.schema, heap[1])
       THEN pc' = "raised" /\ UNCHANGED result
       ELSE pc' = "done" /\ result' = validate_with_error(cfg.schema, heap[1])
    /\ UNCHANGED <<cfg, run, outer, sleeps, objs, stack>>

NextValidate == Schema_validate

SpecValidate == InitValidate /\ [][NextValidate]_vars

\* ---------------------------------------------- synthesising an example
\* what random.choice may draw: a position among MaxChoice
MaxChoice == 3

\* how often the caller asks for the example
MaxExamples == 2

\* getattr(cls, "__example_overrides__", {}).items(): pairs of a path,
\* split at its dots, and the literal
overrides_of(cls) ==
    IF "overrides" \in DOMAIN cls THEN cls.overrides ELSE << >>

RECURSIVE _example_for_type(_, _)
RECURSIVE Schema_example(_, _)

\* Schema._example_for_type; the float 3.14 is written FloatV(3)
_example_for_type(typ, rnd) ==
    IF _is_rule(typ) THEN Rule_example(typ, rnd)
    ELSE IF _is_list(typ) THEN ListV(<<_example_for_type(typ.list, rnd)>>)
    ELSE IF _is_tuple(typ)
    THEN ListV([i \in 1..Len(typ.tuple) |->
                   _example_for_type(typ.tuple[i], rnd)])
    ELSE IF _is_optional(typ)
    THEN _example_for_type(OptionalInner(typ), rnd)
    ELSE IF _is_union(typ) THEN _example_for_type(typ.union[1], rnd)
    ELSE IF _is_schema(typ) THEN DictV(Schema_example(typ, rnd))
    ELSE CASE typ.prim = "str"   -> StrV("example")
           [] typ.prim = "int"   -> IntV(42)
           [] typ.prim = "float" -> FloatV(3)
           [] typ.prim = "bool"  -> BoolV(TRUE)
           [] OTHER              -> StrV("<class '" \o typ.prim \o "'>")

\* ex = {n: cls._example_for_type(t) for n, t in cls._field_types().items()}
FieldExamples(cls, rnd) ==
    [i \in 1..Len(_field_types(cls)) |->
        <<_field_types(cls)[i][1],
          _example_for_type(_field_types(cls)[i][2], rnd)>>]

\* the loop over the fixes of the declared constraints, from constraint i on
RECURSIVE ApplyFixes(_, _, _)
ApplyFixes(cls, ex, i) ==
    LET
        \* the fix of a constraint; constraint(...) without fix= gives a no-op
        fix_of(c) == IF "fix" \in DOMAIN c THEN c.fix ELSE "none"
        \* the fix functions, by name: make_even_odd is d["x"] = d["y"] + 1,
        \* make_y_follow is d["y"] = d["x"] + 1, none is the no-op
        apply_fix(fix, d) ==
            CASE fix = "make_even_odd" ->
                    DictSet(d, "x", IntV(Twice(Get(d, "y")) \div 2 + 1))
              [] fix = "make_y_follow" ->
                    DictSet(d, "y", IntV(Twice(Get(d, "x")) \div 2 + 1))
              [] OTHER -> d
    IN
        IF i > Len(cls.constraints) THEN ex
        ELSE ApplyFixes(cls, apply_fix(fix_of(cls.constraints[i]), ex), i + 1)

\* Schema._apply_path: assign value into the nested dict at the path; the
\* paths of the overrides lead through dicts or through absent keys
RECURSIVE _apply_path(_, _, _)
_apply_path(obj, path, value) ==
    IF Len(path) = 1 THEN DictSet(obj, path[1], value)
    ELSE LET sub == IF HasKey(obj, path[1]) THEN Get(obj, path[1]).v
                    ELSE << >>
         IN  DictSet(obj, path[1],
                     DictV(_apply_path(sub, Tail(path), value)))

\* the loop over the overrides, from override i on
RECURSIVE ApplyOverrides(_, _, _)
ApplyOverrides(cls, ex, i) ==
    IF i > Len(overrides_of(cls)) THEN ex
    ELSE ApplyOverrides(cls,
                        _apply_path(ex, overrides_of(cls)[i][1],
                                    overrides_of(cls)[i][2]),
                        i + 1)

\* an example that applies the overrides before the fixes
Schema_example_overrides_first(cls, rnd) ==
    ApplyFixes(cls, ApplyOverrides(cls, FieldExamples(cls, rnd), 1), 1)

\* Schema.example: the field examples, then the fixes, then the overrides
Schema_example(cls, rnd) ==
    ApplyOverrides(cls, ApplyFixes(cls, FieldExamples(cls, rnd), 1), 1)

TwoFixes ==
    [name |-> "TwoFixes",
     fields |-> << <<"x", Prim("int")>>, <<"y", Prim("int")>> >>,
     constraints |->
        << [path |-> "y", desc |-> "must be odd if x is even and vice versa",
            fn |-> "parity", fix |-> "make_even_odd"],
           [path |-> "x", desc |-> "must be smaller than y",
            fn |-> "less", fix |-> "make_y_follow"] >>]

FixedOverridden ==
    [name |-> "FixedOverridden",
     fields |-> << <<"x", Prim("int")>>, <<"y", Prim("int")>> >>,
     constraints |->
        << [path |-> "y", desc |-> "must be odd if x is even and vice versa",
            fn |-> "parity", fix |-> "make_even_odd"] >>,
     overrides |-> << <<<<"x">>, IntV(51)>> >>]

InitExample ==
    LET
        ExampleSchemas ==
            LET
                \* a schema of one field x of the type
                Field(typ) ==
                    [name |-> "Field", fields |-> << <<"x", typ>> >>, constraints |-> << >>]
                OverlappingOverrides ==
                    [name |-> "OverlappingOverrides",
                     fields |-> << <<"a", Inner>> >>,
                     constraints |-> << >>,
                     overrides |-> << <<<<"a", "x">>, IntV(7)>>,
                                      <<<<"a">>, DictV(<< <<"x", IntV(8)>> >>)>> >>]
            IN
                LET
                    \* the types of a field: primitives and rules, and the composites of each
                    Colors == <<StrV("green"), StrV("red"), StrV("blue")>>
                    ScalarTypes ==
                        {Prim(p) : p \in Primitives}
                        \cup {NaturalNumber, Interval(0, 10), Interval(0, 50), OneOf(Colors),
                              Regex("\\d+"), Regex("<match>")}
                    FieldTypes ==
                        ScalarTypes
                        \cup {List(t) : t \in ScalarTypes}
                        \cup {Optional(t) : t \in ScalarTypes}
                        \cup {TupleOf(<<t, Prim("int")>>) : t \in ScalarTypes}
                        \cup {Union(<<t, Prim("str")>>) : t \in ScalarTypes \ {Prim("str")}}
                        \cup {Inner, Mid}
                    \* the schemas of the doctests on fixes and overrides, and variations
                    ParityFixed ==
                        [name |-> "ParityFixed",
                         fields |-> << <<"x", Prim("int")>>, <<"y", Prim("int")>> >>,
                         constraints |->
                            << [path |-> "y", desc |-> "must be odd if x is even and vice versa",
                                fn |-> "parity", fix |-> "make_even_odd"] >>]
                    Overridden ==
                        [name |-> "Overridden",
                         fields |-> << <<"x", Prim("int")>>, <<"y", Prim("int")>> >>,
                         constraints |-> << >>,
                         overrides |-> << <<<<"x">>, IntV(43)>>, <<<<"y">>, IntV(44)>> >>]
                    NestedOverridden ==
                        [name |-> "NestedOverridden",
                         fields |-> << <<"a", Inner>>, <<"y", Prim("str")>> >>,
                         constraints |-> << >>,
                         overrides |-> << <<<<"a", "x">>, IntV(7)>>, <<<<"b", "c">>, IntV(8)>> >>]
                IN
                    {Field(t) : t \in FieldTypes}
                    \cup {ParitySchema, ParityFixed, TwoFixes, Overridden, FixedOverridden,
                          NestedOverridden, OverlappingOverrides}
    IN
        LET
            ExampleConfigs == {[kind |-> "example", schema |-> S] : S \in ExampleSchemas}
        IN
            /\ cfg \in ExampleConfigs
            /\ pc = "start"
            /\ run = NoRun
            /\ outer = NoOuter
            /\ result = <<FALSE, "", "">>
            /\ heap = << >>
            /\ calls = << >>
            /\ sleeps = 0
            /\ objs = << >>
            /\ stack = << >>

\* one call of Schema.example(); calls logs what it returned
Schema_example_call ==
    /\ pc \in {"start", "example"} /\ cfg.kind = "example"
    /\ Len(calls) < MaxExamples
    /\ \E rnd \in 1..MaxChoice :
         calls' = Append(calls, [data |-> Schema_example(cfg.schema, rnd)])
    /\ pc' = "example"
    /\ UNCHANGED <<cfg, run, outer, result, heap, sleeps, objs, stack>>

\* Schema.validate_with_error on the example returned last
Schema_validate_example ==
    /\ pc = "example" /\ cfg.kind = "example"
    /\ IF validate_raises(cfg.schema, calls[Len(calls)].data)
       THEN pc' = "raised" /\ UNCHANGED result
       ELSE /\ pc' = "done"
            /\ result' = validate_with_error(cfg.schema,
                                             calls[Len(calls)].data)
    /\ UNCHANGED <<cfg, run, outer, heap, calls, sleeps, objs, stack>>

NextExample ==
    \/ Schema_example_call
    \/ Schema_validate_example

SpecExample == InitExample /\ [][NextExample]_vars

\* ----------------------------------------------------------- the system
Next ==
    \/ BaseStrategy_call
    \/ BaseStrategy_attempt
    \/ BaseStrategy_exhausted
    \/ Fallback_call
    \/ Fallback_after_inner
    \/ AutoRepair_call
    \/ AutoRepair_after_inner
    \/ _repair
    \/ _repair_after_strategy

Spec == Init /\ [][Next]_vars

\* ------------------------------------- AutoRepair with a budget below zero
\* how far below zero the depth of an AutoRepair is taken
MaxOverdraft == 2

\* how many generator calls a call is followed for
MaxCalls == 5

InitNonPositiveDepth ==
    LET
        \* AutoRepair objects whose depth is zero or negative
        NonPositiveDepthConfigs ==
            {[kind |-> "AutoRepair", inner |-> b, fallback |-> b, depth |-> d,
              mode |-> m, repair_retries |-> rr, call_prompt |-> None,
              tmpl |-> << <<"attribute", "odd">> >>] :
                b \in BaseStrategies, d \in (0 - MaxOverdraft)..0,
                m \in {"sub", "full"}, rr \in 0..MaxRepairRetries}
    IN
        /\ cfg \in NonPositiveDepthConfigs
        /\ pc = "start"
        /\ run = NoRun
        /\ outer = NoOuter
        /\ result = Tuple(0, FALSE, None, None)
        /\ heap = << >>
        /\ calls = << >>
        /\ sleeps = 0
        /\ objs = << >>
        /\ stack = << >>

\* AutoRepair._repair, followed while fewer than MaxCalls calls were made
_repair_followed == Len(calls) < MaxCalls /\ _repair

NextNonPositiveDepth ==
    \/ AutoRepair_call
    \/ BaseStrategy_attempt
    \/ BaseStrategy_exhausted
    \/ AutoRepair_after_inner
    \/ _repair_followed
    \/ _repair_after_strategy

SpecNonPositiveDepth == InitNonPositiveDepth /\ [][NextNonPositiveDepth]_vars

\* ------------------------------------------------- reading the call log
\* the positions of the generator calls made by strategy `who`
CallsOf(who) == {i \in 1..Len(calls) : calls[i].who = who}

Last(S) == CHOOSE i \in S : \A j \in S : j <= i

\* the reply of call i validates against prompt p
Validates(p, i) ==
    /\ ~validate_raises(p.schema, calls[i].data)
    /\ Prompt_validate(p, calls[i].data)[1]

\* the reply of call i is rejected by prompt p (validation returns an error)
Rejected(p, i) ==
    /\ ~validate_raises(p.schema, calls[i].data)
    /\ ~Prompt_validate(p, calls[i].data)[1]

\* what a BaseStrategy call with prompt p that made the calls S and has
\* returned must have returned, read off the replies alone
Expected(p, S) ==
    IF S = {} THEN Tuple(0, FALSE, None, None)
    ELSE IF \E i \in S : Validates(p, i)
         THEN LET f == CHOOSE i \in S : /\ Validates(p, i)
                                        /\ \A j \in S : Validates(p, j) => i <= j
              IN  Tuple(calls[f].reply, TRUE, None, None)
         ELSE LET v == Prompt_validate(p, calls[Last(S)].data)
              IN  Tuple(calls[Last(S)].reply, FALSE, v[2], v[3])

IsBase == cfg.kind = "BaseStrategy"

IsFallback == cfg.kind = "Fallback"

IsAutoRepair == cfg.kind = "AutoRepair"

\* ------------------------------------------------------------------ claims
\* C1: a BaseStrategy call with retries = r >= 0 calls the generator at most
\* r+1 times, exactly r+1 times when it returns without a valid reply, and
\* never again after a reply that validates (a valid reply is the last call).
C1_AtMostRetriesPlusOne ==
    (IsBase /\ cfg.inner.retries >= 0) =>
        /\ Len(calls) <= cfg.inner.retries + 1
        /\ \A i \in 1..Len(calls) :
              Validates(cfg.inner.prompt, i) => i = Len(calls)
        /\ (pc = "done" /\ \A i \in 1..Len(calls) : Rejected(cfg.inner.prompt, i))
              => Len(calls) = cfg.inner.retries + 1
        /\ (pc = "done" /\ cfg.inner.retries = 0) => Len(calls) = 1

C1_Witness ==
    /\ IsBase /\ pc = "done"
    /\ cfg.inner.retries = MaxRetries
    /\ Len(calls) = MaxRetries + 1
    /\ ~result.ok

\* C2: for retries >= 0 a BaseStrategy call returns (reply, true, null, null)
\* with the first reply that validates, or else (last reply, false, short,
\* long) with the validation error of that last reply; the errors are null
\* exactly when ok is true.
C2_BaseResult ==
    (IsBase /\ cfg.inner.retries >= 0 /\ pc = "done") =>
        /\ result = Expected(cfg.inner.prompt, 1..Len(calls))
        /\ result.ok <=> (result.err = None /\ result.exp = None)
        /\ result.ok <=> (result.err = None \/ result.exp = None)

C2_Witness ==
    /\ IsBase /\ pc = "done" /\ ~result.ok
    /\ Len(calls) >= 2
    /\ calls[1].data # calls[Len(calls)].data
    /\ Prompt_validate(cfg.inner.prompt, calls[1].data)[2] # result.err

\* C3: when the inner strategy of a Fallback returns ok = true, the Fallback
\* call returns exactly inner's tuple (the one inner's replies determine) and
\* the fallback strategy's generator is never called.
C3_InnerSuccessUnchanged ==
    (IsFallback /\ pc = "done" /\ outer.ok) =>
        /\ result = Tuple(outer.reply, outer.ok, outer.err, outer.exp)
        /\ result = Expected(cfg.inner.prompt, CallsOf("inner"))
        /\ CallsOf("fallback") = {}

C3_Witness ==
    /\ IsFallback /\ pc = "done" /\ outer.ok
    /\ Len(calls) = MaxRetries + 1
    /\ cfg.fallback.retries >= 0

\* C4: in a Fallback call the generator calls of inner all come before those
\* of fallback, and a call of fallback's generator happens only once inner
\* has returned ok = false after all of its attempts.
C4_InnerBeforeFallback ==
    IsFallback =>
        /\ \A i \in CallsOf("fallback") : \A j \in CallsOf("inner") : j < i
        /\ CallsOf("fallback") # {} =>
              /\ pc \in {"fb_fallback", "done", "raised"}
              /\ ~outer.ok
              /\ outer = [NoOuter EXCEPT
                            !.reply = Expected(cfg.inner.prompt, CallsOf("inner")).reply,
                            !.err = Expected(cfg.inner.prompt, CallsOf("inner")).err,
                            !.exp = Expected(cfg.inner.prompt, CallsOf("inner")).exp]
              /\ Cardinality(CallsOf("inner")) = range_len(cfg.inner.retries)
              /\ \A j \in CallsOf("inner") : Rejected(cfg.inner.prompt, j)
        /\ (pc \in {"start", "fb_inner", "fb_after_inner"}) => CallsOf("fallback") = {}

C4_Witness ==
    /\ IsFallback /\ pc = "done"
    /\ Cardinality(CallsOf("inner")) = MaxRetries + 1
    /\ Cardinality(CallsOf("fallback")) >= 2

\* C5: when the inner strategy of a Fallback returns ok = false, the fallback
\* strategy is run once, on the text rendered from the same call-time
\* parameters, and the Fallback call returns exactly fallback's tuple, be it a
\* success or a failure; the reply of inner is not returned and nobody but
\* inner and fallback calls a generator.
C5_FallbackResult ==
    (IsFallback /\ pc = "done" /\ ~outer.ok) =>
        /\ result = Expected(cfg.fallback.prompt, CallsOf("fallback"))
        /\ Cardinality(CallsOf("fallback")) <= range_len(cfg.fallback.retries)
        /\ ~result.ok =>
              Cardinality(CallsOf("fallback")) = range_len(cfg.fallback.retries)
        /\ \A i \in CallsOf("fallback") :
              Validates(cfg.fallback.prompt, i) => i = Len(calls)
        /\ \A i \in CallsOf("fallback") :
              calls[i].txt = Join(render(cfg.fallback.prompt, cfg.tmpl))
        /\ \A i \in CallsOf("inner") :
              /\ calls[i].txt = Join(render(cfg.inner.prompt, cfg.tmpl))
              /\ result.reply # calls[i].reply
        /\ CallsOf("inner") \cup CallsOf("fallback") = 1..Len(calls)

C5_Witness ==
    /\ IsFallback /\ pc = "done" /\ ~outer.ok
    /\ outer.reply # 0
    /\ ~result.ok
    /\ result.err # outer.err
    /\ cfg.fallback.prompt # cfg.inner.prompt
    /\ cfg.tmpl # << <<"attribute", "lucky">> >>

\* the generator calls of inner, for an AutoRepair call
InnerCalls == CallsOf("inner")

RepairCalls == CallsOf("repair")

\* the text every repair round of this call must send: the repair prompt
\* built around the reply inner returned
RepairText ==
    Join(render(repair_strategy(calls[Last(InnerCalls)].data).prompt, EmptyDict))

\* C6: an AutoRepair call with depth = 0 returns the result tuple of inner
\* unchanged (the tuple inner's replies determine) and sends no repair
\* request to the generator.
C6_DepthZeroNoRepair ==
    (IsAutoRepair /\ cfg.depth = 0) =>
        /\ RepairCalls = {}
        /\ pc = "done" =>
              /\ result = Tuple(outer.reply, outer.ok, outer.err, outer.exp)
              /\ result = Expected(RunnerInner.prompt, InnerCalls)

C6_Witness ==
    /\ IsAutoRepair /\ cfg.depth = 0 /\ pc = "done"
    /\ ~result.ok /\ result.reply # 0
    /\ Len(calls) = MaxRetries + 1

\* C7: an AutoRepair call with depth > 0 that returns ok = false after its
\* repair rounds returns inner's reply object, with the content inner
\* returned, and inner's error pair; no repair reply is the returned object
\* and the budget is used up.
C7_ExhaustedReturnsOriginal ==
    (IsAutoRepair /\ cfg.depth > 0 /\ pc = "done" /\ ~result.ok) =>
        /\ result = Expected(RunnerInner.prompt, InnerCalls)
        /\ result.reply = calls[Last(InnerCalls)].reply
        /\ heap[result.reply] = calls[Last(InnerCalls)].data
        /\ RepairCalls # {}
        /\ \A i \in RepairCalls :
              /\ Rejected(RunnerInner.prompt, i)
              /\ calls[i].reply # result.reply
        /\ outer.depth = 0

C7_Witness ==
    /\ IsAutoRepair /\ cfg.depth = MaxDepth /\ pc = "done" /\ ~result.ok
    /\ \E i \in RepairCalls :
          /\ calls[i].data # heap[result.reply]
          /\ Prompt_validate(RunnerInner.prompt, calls[i].data)[2] # result.err

\* C8: whenever an AutoRepair call returns ok = true, both errors are null
\* and the returned reply validates against the schema of the prompt its inner
\* strategy ran with; after a repair round the returned reply has the content
\* of the repair reply that validated, which is the last reply received.
C8_SuccessIsValid ==
    (IsAutoRepair /\ pc = "done" /\ result.ok) =>
        /\ result.err = None /\ result.exp = None
        /\ result.reply # 0
        /\ ~validate_raises(RunnerInner.prompt.schema, heap[result.reply])
        /\ validate_with_error(RunnerInner.prompt.schema, heap[result.reply]) = <<TRUE>>
        /\ RepairCalls # {} =>
              /\ Len(calls) \in RepairCalls
              /\ Validates(RunnerInner.prompt, Len(calls))
              /\ heap[result.reply] = calls[Len(calls)].data

C8_Witness ==
    /\ IsAutoRepair /\ pc = "done" /\ result.ok
    /\ Cardinality(RepairCalls) >= 2
    /\ cfg.call_prompt # None
    /\ heap[result.reply] # calls[Last(InnerCalls)].data

\* C9: the reply object inner returned is never modified by a repair round:
\* it keeps the content it had when the generator returned it, and the
\* working copy that is patched is another object.
C9_OriginalReplyUntouched ==
    IsAutoRepair =>
        /\ \A i \in InnerCalls : heap[calls[i].reply] = calls[i].data
        /\ outer.fixed # 0 =>
              /\ outer.fixed # outer.reply
              /\ \A i \in 1..Len(calls) : calls[i].reply # outer.fixed

C9_Witness ==
    /\ IsAutoRepair /\ pc = "done" /\ result.ok
    /\ outer.fixed # 0
    /\ outer.depth < cfg.depth
    /\ heap[outer.fixed] # heap[outer.reply]

\* C10 as stated: after a repair round that did not yield a valid reply,
\* inner is run again before any further repair round.
C10_InnerRerunBetweenRounds ==
    IsAutoRepair =>
        \A i \in RepairCalls : \A j \in RepairCalls :
            (i < j /\ calls[i].depth # calls[j].depth) =>
                \E k \in InnerCalls : i < k /\ k < j

\* C10 as amended: a repair round at budget d > 0 that did not yield a valid
\* reply is followed directly by the repair round at budget d-1 on the same
\* unchanged working copy (or, at d-1 = 0, by the return of inner's result);
\* inner runs once, before the first round, and is never run again.
C10_RoundsFollowDirectly ==
    IsAutoRepair =>
        /\ \A i \in InnerCalls : \A j \in RepairCalls : i < j
        /\ Cardinality(InnerCalls) <= range_len(RunnerInner.retries)
        /\ \A j \in RepairCalls :
              /\ calls[j].depth \in 1..cfg.depth
              /\ calls[j].txt = RepairText
              /\ (j - 1) \in InnerCalls => calls[j].depth = cfg.depth
              /\ (j - 1) \in RepairCalls =>
                    calls[j].depth \in {calls[j-1].depth, calls[j-1].depth - 1}
        /\ (pc = "done" /\ ~result.ok /\ cfg.depth > 0) =>
              {calls[j].depth : j \in RepairCalls} = 1..cfg.depth

C10_Witness ==
    /\ IsAutoRepair /\ pc = "done" /\ ~result.ok
    /\ cfg.depth = MaxDepth
    /\ \E j \in RepairCalls :
          /\ (j - 1) \in RepairCalls
          /\ calls[j].depth = calls[j-1].depth - 1

\* the generator calls of the repair round run at budget d
RoundCalls(d) == {j \in RepairCalls : calls[j].depth = d}

\* the budgets at which a repair round has called the generator
Rounds == {calls[j].depth : j \in RepairCalls}

\* steps one repair round takes at most: the entry of _repair, the attempts
\* of the repair strategy, the end of its loop, the return into _repair
RoundCost == range_len(cfg.repair_retries) + 3

\* steps _repair entered with budget d takes at most
RepairLeft(d) == d * RoundCost + 1

\* steps the running strategy takes at most, n being the length of its loop
RunLeft(n) == n - run.i + 1

\* an upper bound of the steps an AutoRepair call still takes
StepsLeft ==
    CASE pc = "start" ->
            range_len(RunnerInner.retries) + 3 + RepairLeft(cfg.depth)
      [] pc = "ar_inner" ->
            RunLeft(range_len(run.retries)) + 1 + RepairLeft(cfg.depth)
      [] pc = "ar_after_inner" -> 1 + RepairLeft(cfg.depth)
      [] pc = "ar_repair_enter" -> RepairLeft(outer.depth)
      [] pc = "ar_repair" ->
            RunLeft(range_len(cfg.repair_retries)) + 1
            + RepairLeft(outer.depth - 1)
      [] pc = "ar_after_repair" -> 1 + RepairLeft(outer.depth - 1)
      [] OTHER -> 0

\* C11: one AutoRepair call with depth d >= 0 and repair_retries r >= 0 runs
\* at most d repair rounds, every round makes at most r+1 generator calls,
\* the rounds come strictly one after another (the budget of the generator
\* calls only goes down along the call), and the call ends whatever the
\* generator replies: every step of the call lowers a natural number, the
\* bound StepsLeft of the steps still to come.
C11_BoundedRepair ==
    /\ [](IsAutoRepair =>
            /\ Cardinality(Rounds) <= cfg.depth
            /\ Rounds \subseteq 1..cfg.depth
            /\ \A d \in Rounds :
                  Cardinality(RoundCalls(d)) <= cfg.repair_retries + 1
            /\ \A i \in RepairCalls : \A j \in RepairCalls :
                  i < j => calls[i].depth >= calls[j].depth
            /\ Cardinality(RepairCalls) <= cfg.depth * (cfg.repair_retries + 1)
            /\ StepsLeft >= 0
            /\ StepsLeft = 0 <=> pc \in {"done", "raised"})
    /\ [][IsAutoRepair => StepsLeft' < StepsLeft]_vars

C11_Witness ==
    /\ IsAutoRepair /\ pc = "done" /\ ~result.ok
    /\ cfg.depth = MaxDepth /\ cfg.repair_retries = MaxRepairRetries
    /\ Cardinality(Rounds) = MaxDepth
    /\ \A d \in Rounds : Cardinality(RoundCalls(d)) = MaxRepairRetries + 1

\* C12 as stated: a strategy call given every template parameter, with
\* retry budgets >= 0 and keyed-object replies, never raises to its caller,
\* whatever the field values of the replies are; when its budgets are
\* exhausted without a valid reply it returns ok = false with both error
\* strings.
C12_NeverRaises ==
    (cfg.tmpl # EmptyDict /\ cfg.inner.retries >= 0
                          /\ cfg.fallback.retries >= 0) =>
        /\ pc # "raised"
        /\ (pc = "done" /\ ~result.ok) =>
              (result.err # None /\ result.exp # None)

\* ----------------------------------------------- claims on the overrides
\* the keyword arguments that override the same attribute of inner twice
TwiceKwargs ==
    << <<<<"inner">>, << <<"retries", MaxRetries>> >> >>,
       <<<<"inner", "retries">>, 0>> >>

\* C13: per-call overrides are in effect during the call only.  When the
\* call has returned or raised, every attribute of the called strategy, of
\* its nested strategies and of their prompts has the value it had before
\* the call and no context is left entered, also when one attribute is
\* overridden twice in the call; while a BaseStrategy called with retries= or
\* prompt= runs, its loop and its validation use the overriding values.
C13_OverridesRestored ==
    /\ pc \in {"done", "raised"} => (objs = cfg.objs0 /\ stack = << >>)
    /\ (pc = "ov_base" /\ HasKey(cfg.kw, <<"retries">>)
                       /\ ~HasKey(cfg.kw, <<"self", "retries">>)) =>
          run.retries = Get(cfg.kw, <<"retries">>)
    /\ (pc = "ov_base" /\ HasKey(cfg.kw, <<"prompt">>)
                       /\ ~HasKey(cfg.kw, <<"p", "schema">>)) =>
          run.prompt = cfg.objs0[Get(cfg.kw, <<"prompt">>)]

C13_Witness ==
    /\ IsFallback /\ pc = "done"
    /\ cfg.kw = TwiceKwargs
    /\ cfg.objs0.inner.retries = MaxRetries
    /\ MaxRetries > 0
    /\ CallsOf("fallback") # {}
    /\ CallsOf("inner") = {1}

\* the prompt a Fallback call names for its parameter n: the one of
\* n__prompt=, else the one of n={"prompt": ...}, else the stored one
NamedPrompt(n) ==
    IF HasKey(cfg.kw, <<n, "prompt">>) THEN Get(cfg.kw, <<n, "prompt">>)
    ELSE IF HasKey(cfg.kw, <<n>>) /\ HasKey(Get(cfg.kw, <<n>>), "prompt")
         THEN Get(Get(cfg.kw, <<n>>), "prompt")
         ELSE cfg.objs0[n].prompt

EffPrompt(n) == cfg.objs0[NamedPrompt(n)]

\* C14: in a call of a Fallback whose inner and fallback are distinct
\* objects, inner renders and validates against the prompt named for inner
\* (inner__prompt=P, else its stored prompt) and fallback against the prompt
\* named for fallback (fallback__prompt=P, else its stored prompt): an
\* override of one namespace never reaches the other strategy, and both can
\* be given in one call.
C14_NamespacedPrompt ==
    (IsFallback /\ cfg.objs0.self.inner # cfg.objs0.self.fallback) =>
        /\ \A i \in CallsOf("inner") :
              calls[i].txt = Join(render(EffPrompt("inner"), cfg.tmpl))
        /\ \A i \in CallsOf("fallback") :
              calls[i].txt = Join(render(EffPrompt("fallback"), cfg.tmpl))
        /\ pc \in {"ov_fb_after_inner", "ov_fb_fallback", "ov_exit", "done"} =>
              Tuple(outer.reply, outer.ok, outer.err, outer.exp)
                  = Expected(EffPrompt("inner"), CallsOf("inner"))
        /\ (pc \in {"ov_exit", "done"} /\ ~outer.ok) =>
              result = Expected(EffPrompt("fallback"), CallsOf("fallback"))
        /\ (pc \in {"ov_exit", "done"} /\ outer.ok) =>
              /\ result = Expected(EffPrompt("inner"), CallsOf("inner"))
              /\ CallsOf("fallback") = {}

C14_Witness ==
    /\ IsFallback /\ pc = "done" /\ ~result.ok
    /\ cfg.objs0.self.inner # cfg.objs0.self.fallback
    /\ cfg.kw = << <<<<"inner", "prompt">>, "prompt_50">>,
                   <<<<"fallback", "prompt">>, "prompt">> >>
    /\ cfg.objs0.fallback.prompt = "prompt_50"
    /\ calls[Len(calls)].who = "fallback"
    /\ calls[Len(calls)].data = << <<"x", IntV(20)>> >>
    /\ \E i \in CallsOf("inner") : calls[i].data = << <<"x", IntV(60)>> >>

\* ----------------------------------------------- claims on the validation
IsValidate == cfg.kind = "validate"

\* the instance has no key that is not a declared field
NoUndeclared == \A i \in 1..Len(cfg.data) :
                   \E f \in 1..Len(cfg.schema.fields) :
                       cfg.schema.fields[f][1] = cfg.data[i][1]

\* the i-th declared field is violated by the instance: missing (and not
\* optional) or present with a value its type does not accept
FieldViolated(i) ==
    LET name == cfg.schema.fields[i][1]
        typ  == cfg.schema.fields[i][2]
    IN  IF ~HasKey(cfg.data, name) THEN ~_is_optional(typ)
        ELSE \/ _validate_value_raises(Get(cfg.data, name), typ)
             \/ _validate_value(name, Get(cfg.data, name), typ) # None

ViolatedFields == {i \in 1..Len(cfg.schema.fields) : FieldViolated(i)}

\* the result that reports the violation of the i-th declared field
FieldFailure(i) ==
    LET name == cfg.schema.fields[i][1]
        typ  == cfg.schema.fields[i][2]
    IN  IF ~HasKey(cfg.data, name)
        THEN <<FALSE, "\"" \o name \o "\" is missing.",
                      "\"" \o name \o "\" must be present.">>
        ELSE LET err == _validate_value(name, Get(cfg.data, name), typ)
             IN  <<FALSE, err[1][1], err[1][2]>>

Least(S) == CHOOSE i \in S : \A j \in S : i <= j

\* the same instance in every key order
KeyOrders(d) ==
    {e \in [1..Len(d) -> {d[i] : i \in 1..Len(d)}] :
        {e[i] : i \in 1..Len(d)} = {d[i] : i \in 1..Len(d)}}

\* C15: when an instance without undeclared keys violates two or more
\* declared fields, validate_with_error reports the violation (missing or
\* invalid) of the one declared first and nothing else, and it reports the
\* same for every key order of the instance.
C15_FirstDeclaredField ==
    (IsValidate /\ pc = "done" /\ NoUndeclared
                /\ Cardinality(ViolatedFields) >= 2) =>
        /\ result = FieldFailure(Least(ViolatedFields))
        /\ \A e \in KeyOrders(cfg.data) :
              /\ ~validate_raises(cfg.schema, e)
              /\ validate_with_error(cfg.schema, e) = result

C15_Witness ==
    /\ IsValidate /\ pc = "done"
    /\ cfg.schema = TwoIntervals
    /\ cfg.data = << <<"y", IntV(60)>>, <<"x", IntV(60)>> >>
    /\ ViolatedFields = {1, 2}
    /\ result = FieldFailure(1)

\* the undeclared keys of the instance, by position
UndeclaredKeys ==
    {i \in 1..Len(cfg.data) :
        \A f \in 1..Len(cfg.schema.fields) :
            cfg.schema.fields[f][1] # cfg.data[i][1]}

\* C16: an instance with a key that is not a declared field is rejected
\* with the short error "<key>" is not a valid field. for the first such
\* key of the instance, whatever else is wrong in it: missing fields,
\* values of a wrong type, values a rule rejects or cannot compare, violated
\* cross-field constraints.
C16_UndeclaredKeyFirst ==
    (IsValidate /\ pc # "start" /\ UndeclaredKeys # {}) =>
        /\ pc = "done"
        /\ result[1] = FALSE
        /\ result[2] = "\"" \o cfg.data[Least(UndeclaredKeys)][1]
                            \o "\" is not a valid field."

C16_Witness ==
    /\ IsValidate /\ pc = "done"
    /\ cfg.schema = ParitySchema
    /\ cfg.data = << <<"x", IntV(60)>>, <<"z", IntV(5)>>, <<"y", IntV(60)>> >>
    /\ result[2] = "\"z\" is not a valid field."

\* the schemas with a field x typed Optional[T], and their T
OptionalOf ==
    << <<OptionalSchema, Prim("int")>>,
       <<OptionalUnion, Union(<<Prim("int"), Prim("str")>>)>>,
       <<OptionalRule, Interval(0, 10)>> >>

\* the value of the field is there and its type accepts it
FieldFine(name, typ) ==
    /\ HasKey(cfg.data, name)
    /\ ~_validate_value_raises(Get(cfg.data, name), typ)
    /\ _validate_value(name, Get(cfg.data, name), typ) = None

Accepted == pc = "done" /\ result = <<TRUE>>

\* C17 as stated: a field x typed Optional[T] accepts an instance without
\* the key x, an instance with x null and every x valid for T, and rejects
\* an x invalid for T; an absent key of the non-optional field y is rejected
\* with the short error "y" is missing.
C17_OptionalField ==
    \A k \in 1..Len(OptionalOf) :
        (IsValidate /\ pc # "start" /\ cfg.schema = OptionalOf[k][1]
                    /\ NoUndeclared) =>
            LET T    == OptionalOf[k][2]
                yfine == FieldFine("y", cfg.schema.fields[2][2])
                xnull == HasKey(cfg.data, "x") /\ Get(cfg.data, "x").t = "null"
            IN  /\ (yfine /\ ~HasKey(cfg.data, "x")) => Accepted
                /\ (yfine /\ xnull) => Accepted
                /\ (yfine /\ FieldFine("x", T)) => Accepted
                /\ (HasKey(cfg.data, "x") /\ ~xnull
                      /\ ~_validate_value_raises(Get(cfg.data, "x"), T)
                      /\ _validate_value("x", Get(cfg.data, "x"), T) # None) =>
                      (pc = "done" /\ result[1] = FALSE)
                /\ (~HasKey(cfg.data, "y")
                      /\ (~HasKey(cfg.data, "x") \/ xnull)) =>
                      (pc = "done" /\ result[1] = FALSE
                                   /\ result[2] = "\"y\" is missing.")

\* the constraints of the schema the instance violates, by position
ViolatedConstraints ==
    {i \in 1..Len(cfg.schema.constraints) :
        ~constraint_fn(cfg.schema.constraints[i].fn, cfg.data)}

ConstraintError(i) ==
    "\"" \o cfg.schema.constraints[i].path \o "\" violates constraint."

\* C18: the cross-field constraints count only once every declared field
\* has passed its own check; then validate_with_error fails on the first
\* violated constraint in declaration order, with the short error
\* "<anchor>" violates constraint. of that constraint, and it succeeds
\* exactly when every field check and every constraint passes.  An instance
\* that fails a field check gets that field's error, never a constraint's.
C18_ConstraintsAfterFields ==
    (IsValidate /\ pc = "done") =>
        IF NoUndeclared /\ ViolatedFields = {}
        THEN IF ViolatedConstraints = {} THEN result = <<TRUE>>
             ELSE /\ result[1] = FALSE
                  /\ result[2] = ConstraintError(Least(ViolatedConstraints))
        ELSE /\ result[1] = FALSE
             /\ \A i \in 1..Len(cfg.schema.constraints) :
                   result[2] # ConstraintError(i)

C18_Witness ==
    /\ IsValidate /\ pc = "done"
    /\ cfg.schema = ParitySchema
    /\ cfg.data = << <<"y", IntV(60)>>, <<"x", IntV(60)>> >>
    /\ ViolatedConstraints = {1, 2}
    /\ result[2] = "\"y\" violates constraint."

\* the alternative accepts the value
AltAccepts(val, alt) ==
    /\ ~_validate_value_raises(val, alt)
    /\ _validate_value("x", val, alt) = None

\* the alternative rejects the value with an error pair
AltRejects(val, alt) ==
    /\ ~_validate_value_raises(val, alt)
    /\ _validate_value("x", val, alt) # None

\* C19 as stated: a value of a union-typed field validates if and only if
\* at least one alternative validates it; when every alternative rejects
\* it, the short error says the path matches none of the allowed
\* alternatives and the long error is the long errors of the alternatives,
\* in declaration order, joined by " or ".
C19_UnionIffAlternative ==
    (IsValidate /\ pc # "start" /\ cfg.schema \in {UnionSchema, UnionRule}
                /\ Keys(cfg.data) = {"x"}) =>
        LET v    == Get(cfg.data, "x")
            alts == cfg.schema.fields[1][2].union
        IN  /\ Accepted <=> \E i \in 1..Len(alts) : AltAccepts(v, alts[i])
            /\ (\A i \in 1..Len(alts) : AltRejects(v, alts[i])) =>
                  /\ pc = "done"
                  /\ result =
                       <<FALSE,
                         "\"x\" matches none of the allowed alternatives.",
                         JoinOr([i \in 1..Len(alts) |->
                                    _validate_value("x", v, alts[i])[1][2]])>>

\* C20 as stated: a field typed as a primitive rejects every value whose
\* runtime type is another kind; in particular the integer primitive rejects
\* the booleans.
C20_PrimitiveKindsDistinct ==
    \A p \in Primitives :
        (IsValidate /\ pc = "done" /\ cfg.schema = Primitive(p)
                    /\ Keys(cfg.data) = {"x"}
                    /\ Get(cfg.data, "x").t # p) =>
            result[1] = FALSE

\* C28 as stated: in a BaseStrategy call the backoff sleep happens only
\* between two consecutive attempts, so a call that has made n generator
\* calls and returned has slept exactly n - 1 times.
C28_SleepOnlyBetweenAttempts ==
    (IsBase /\ pc = "done" /\ Len(calls) >= 1) => sleeps = Len(calls) - 1

SomeFieldMissing ==
    \E f \in 1..Len(cfg.schema.fields) :
        result[2] = "\"" \o cfg.schema.fields[f][1] \o "\" is missing."

IsOptionalType(typ) ==
    _is_union(typ) /\ \E i \in 1..Len(typ.union) : IsNoneType(typ.union[i])

ListField == Get(cfg.data, "x")

ListType == cfg.schema.fields[1][2]

ElementType(i) ==
    IF _is_list(ListType) THEN ListType.list ELSE ListType.tuple[i]

ElementError(i) ==
    _validate_value("x[" \o ToString(i - 1) \o "]", ListField.v[i],
                    ElementType(i))

FailingElements ==
    {i \in 1..Len(ListField.v) :
        /\ ~_validate_value_raises(ListField.v[i], ElementType(i))
        /\ ElementError(i) # None}

\* C25: a list-typed value fails if it is not a list, a tuple-typed value
\* fails if it is not a sequence of exactly as many elements as the tuple
\* has types; otherwise the elements are validated in index order at the
\* paths x[0], x[1], ... and the error of the first failing one is the
\* result; with no failing element the value passes.
C25_ListsInIndexOrder ==
    (IsValidate /\ pc = "done" /\ cfg.schema \in ListSchemas) =>
        IF ListField.t # "list"
        THEN /\ result[1] = FALSE
             /\ result[3] = (IF _is_list(ListType) THEN "\"x\" must be list"
                             ELSE "\"x\" must be tuple")
        ELSE IF _is_tuple(ListType) /\ Len(ListField.v) # Len(ListType.tuple)
        THEN /\ result[1] = FALSE
             /\ result[3] = "\"x\" must be length-"
                               \o ToString(Len(ListType.tuple)) \o " tuple"
        ELSE IF FailingElements = {} THEN result = <<TRUE>>
        ELSE LET i == Least(FailingElements)
             IN  /\ result = <<FALSE, ElementError(i)[1][1],
                                      ElementError(i)[1][2]>>
                 /\ startswith(result[2],
                               "\"x[" \o ToString(i - 1) \o "]\"")
                 /\ startswith(result[3],
                               "\"x[" \o ToString(i - 1) \o "]\"")

C25_Witness ==
    /\ IsValidate /\ pc = "done" /\ cfg.schema = ListSchema
    /\ ListField = ListV(<<IntV(5), StrV("a"), NullV>>)
    /\ FailingElements = {2, 3}
    /\ result[2] = "\"x[1]\" must be integer"

\* the path a message names: the text between its first two double quotes
QuotedPath(msg) ==
    IF startswith(msg, "\"") /\ find_quote(msg, 2) # 0
    THEN SubSeq(msg, 2, find_quote(msg, 2) - 1)
    ELSE ""

\* C27 as stated: an error found inside the nested record at path a is
\* reported with the nested path prefixed by a in the short and in the long
\* message, so that both messages name the same full path, for any depth
\* of nesting and any field names.
C27_NestedPathPrefixed ==
    (IsValidate /\ pc = "done" /\ cfg.schema \in NestedSchemas \ {OutL}
                /\ Get(cfg.data, "a").t = "dict" /\ result[1] = FALSE) =>
        /\ startswith(QuotedPath(result[2]), "a.")
        /\ QuotedPath(result[3]) = QuotedPath(result[2])

\* C30 as stated: a union whose alternatives include the null type rejects
\* a value that is not null and that none of its other alternatives accepts:
\* the field x: Union[int, str, None] rejects every value that is neither
\* null nor accepted by int or by str.
C30_NullAlternativeOnlyNull ==
    (IsValidate /\ pc # "start" /\ cfg.schema = OptionalUnion
                /\ HasKey(cfg.data, "x")
                /\ Get(cfg.data, "x").t # "null"
                /\ ~AltAccepts(Get(cfg.data, "x"), Prim("int"))
                /\ ~AltAccepts(Get(cfg.data, "x"), Prim("str"))) =>
        (pc = "done" /\ result[1] = FALSE)

\* C29 as stated: an AutoRepair whose depth is zero or negative has an
\* exhausted budget: it issues no repair round and returns inner's result.
C29_NonPositiveDepthExhausted ==
    (IsAutoRepair /\ cfg.depth <= 0) =>
        /\ RepairCalls = {}
        /\ pc = "done" => result = inner_result

\* ------------------------------------------------- claims on the examples
IsExample == cfg.kind = "example"

\* C21 as stated: for every schema S, S.validate(S.example()) succeeds:
\* example() returns and the validation of what it returned is (True,).
C21_ExampleValidates ==
    (IsExample /\ pc \in {"done", "raised"}) =>
        (pc = "done" /\ result = <<TRUE>>)

\* the value at a path of a nested dict, if there is one
RECURSIVE ValueAt(_, _)
ValueAt(obj, path) ==
    IF ~HasKey(obj, path[1]) THEN None
    ELSE IF Len(path) = 1 THEN Some(Get(obj, path[1]))
    ELSE IF Get(obj, path[1]).t # "dict" THEN None
    ELSE ValueAt(Get(obj, path[1]).v, Tail(path))

\* p is a prefix of q
IsPrefix(p, q) == Len(p) <= Len(q) /\ SubSeq(q, 1, Len(p)) = p

\* C22 as stated: in the example returned, the value at every override
\* path equals the override literal.
C22_OverridesWin ==
    IsExample =>
        \A c \in 1..Len(calls) : \A i \in 1..Len(overrides_of(cfg.schema)) :
            ValueAt(calls[c].data, overrides_of(cfg.schema)[i][1])
                = Some(overrides_of(cfg.schema)[i][2])

\* override i is not touched by an override listed after it: no later path
\* is a prefix or an extension of its path
Untouched(i) ==
    \A j \in (i + 1)..Len(overrides_of(cfg.schema)) :
        /\ ~IsPrefix(overrides_of(cfg.schema)[i][1],
                     overrides_of(cfg.schema)[j][1])
        /\ ~IsPrefix(overrides_of(cfg.schema)[j][1],
                     overrides_of(cfg.schema)[i][1])

\* C22 amended: example() builds the field examples, applies the fixes in
\* declaration order and the overrides last, in the order they are listed:
\* the value at an override path equals the override literal, whatever the
\* field examples and fixes produced, unless an override listed later
\* assigns that path, a prefix of it or an extension of it; two fixes act
\* one after the other (TwoFixes: x = 42 + 1, then y = x + 1).
C22_LaterOverrideWins ==
    IsExample =>
        \A c \in 1..Len(calls) :
            /\ \A i \in 1..Len(overrides_of(cfg.schema)) :
                  Untouched(i) =>
                      ValueAt(calls[c].data, overrides_of(cfg.schema)[i][1])
                          = Some(overrides_of(cfg.schema)[i][2])
            /\ cfg.schema = TwoFixes =>
                  calls[c].data = << <<"x", IntV(43)>>, <<"y", IntV(44)>> >>

C22_Witness ==
    /\ IsExample /\ pc = "done" /\ cfg.schema = FixedOverridden
    /\ calls[1].data = << <<"x", IntV(51)>>, <<"y", IntV(42)>> >>

\* C26 as stated: two calls of example() on the same schema return equal
\* values.
C26_ExampleDeterministic ==
    (IsExample /\ Len(calls) = 2) => calls[1].data = calls[2].data

====
